---- MODULE Spec2Model ----
(***************************************************************************)
(* Scoring, ranking and caching core of the area recommender.              *)
(*                                                                         *)
(*   src/execution/score_and_rank.py   weight resolver, constraint filter, *)
(*                                     composite scorer, ranking           *)
(*   src/tools/score_areas.py          second scoring engine (rank_areas)  *)
(*   src/tools/cache_manager.py        TTL cache on the file system        *)
(*   src/tools/fetch_*.py              cache-aside fetchers                *)
(*                                                                         *)
(* Python dicts are modelled as sequences of <<key, value>> pairs in       *)
(* insertion order with unique keys.  Python floats are modelled as exact  *)
(* rationals <<numerator, denominator>> with a positive denominator; the   *)
(* only place where a float differs observably from the exact value is a   *)
(* rounding tie, which is modelled as round-half-to-even.                  *)
(***************************************************************************)
EXTENDS Integers, Sequences, FiniteSets, TLC

VARIABLES
    wcall,      \* arguments of the pending/last calculate_adjusted_weights call
    wret,       \* its return value, or NoValue before it has run
    scall,      \* arguments of the pending/last score_and_rank call
    sret,       \* its return value, or NoValue before it has run
    files,      \* the cache directory: file name -> file content
    now,        \* the wall clock, in seconds
    last,       \* the last cache operation and its outcome
    ticks,      \* how often the clock has been advanced
    PERSONA_WEIGHTS,
                \* the module-level weight table of score_and_rank.py
    score_areas_PERSONA_WEIGHTS,
                \* the module-level weight table of score_areas.py
    race        \* the file under concurrent write_cache calls and each
                \* writer's position, or NoValue without such writers

vars == <<wcall, wret, scall, sret, files, now, last, ticks,
          PERSONA_WEIGHTS, score_areas_PERSONA_WEIGHTS, race>>

NoValue == [kind |-> "none"]

-----------------------------------------------------------------------------
(* Python dicts: sequences of <<key, value>> pairs, insertion ordered.     *)

Keys(d) == [i \in 1..Len(d) |-> d[i][1]]

KeySet(d) == {d[i][1] : i \in 1..Len(d)}

Has(d, k) == \E i \in 1..Len(d) : d[i][1] = k

Lookup(d, k) == d[CHOOSE i \in 1..Len(d) : d[i][1] = k][2]

\* dict.get(k, default)
Get(d, k, default) == IF Has(d, k) THEN Lookup(d, k) ELSE default

\* d[k] = v : replaces in place when the key exists, appends otherwise
Put(d, k, v) ==
    IF Has(d, k)
    THEN [i \in 1..Len(d) |-> IF d[i][1] = k THEN <<k, v>> ELSE d[i]]
    ELSE Append(d, <<k, v>>)

\* {k: f(v) for k, v in d.items()} is written inline where it is used.

-----------------------------------------------------------------------------
(* Exact rationals standing for Python floats.                             *)

RECURSIVE GCD(_, _)
GCD(a, b) == IF b = 0 THEN a ELSE GCD(b, a % b)

Abs(x) == IF x < 0 THEN -x ELSE x

\* n/d in lowest terms, d > 0 (keeps the integers of the model small)
Rat(n, d) ==
    LET g == GCD(Abs(n), d)
    IN  <<n \div g, d \div g>>

RInt(n) == <<n, 1>>

RAdd(a, b) == Rat(a[1] * b[2] + b[1] * a[2], a[2] * b[2])

RMul(a, b) == Rat(a[1] * b[1], a[2] * b[2])

\* a / b for b > 0
RDiv(a, b) == Rat(a[1] * b[2], a[2] * b[1])

RLess(a, b) == a[1] * b[2] < b[1] * a[2]

RLeq(a, b) == a[1] * b[2] <= b[1] * a[2]

REq(a, b) == a[1] * b[2] = b[1] * a[2]

RMax(a, b) == IF RLess(a, b) THEN b ELSE a

RMin(a, b) == IF RLess(b, a) THEN b ELSE a

\* floor of n/d for d > 0 (TLC's \div rounds towards minus infinity)
Floor(n, d) == n \div d

\* round-half-to-even of n/d to an integer, d > 0
RoundHalfEven(n, d) ==
    LET q == Floor(n, d)
        r2 == 2 * (n - q * d)
    IN  IF r2 < d THEN q
        ELSE IF r2 > d THEN q + 1
        ELSE IF q % 2 = 0 THEN q ELSE q + 1

\* round(x, 1): the result as a rational with denominator 10
Round1(x) == <<RoundHalfEven(10 * x[1], x[2]), 10>>

\* round(x, 0): the result as a rational with denominator 1
Round0(x) == <<RoundHalfEven(x[1], x[2]), 1>>

RECURSIVE RSumSeq(_)
\* sum(values) of a sequence of rationals
RSumSeq(s) == IF s = <<>> THEN RInt(0) ELSE RAdd(s[1], RSumSeq(Tail(s)))

\* sum(d.values())
RSumValues(d) == RSumSeq([i \in 1..Len(d) |-> d[i][2]])

-----------------------------------------------------------------------------
(* Weight resolver: src/execution/score_and_rank.py                        *)

Personas == <<"student", "parent", "developer">>

\* PERSONA_WEIGHTS as the module defines it when it is loaded
InitialPersonaWeights ==
    <<  <<"student",   << <<"affordability", 35>>, <<"commute", 25>>,
                          <<"safety", 15>>, <<"amenities", 20>>,
                          <<"investment_quality", 5>> >> >>,
        <<"parent",    << <<"affordability", 20>>, <<"schools", 30>>,
                          <<"safety", 25>>, <<"commute", 15>>,
                          <<"amenities", 10>> >> >>,
        <<"developer", << <<"investment_quality", 40>>, <<"demand_index", 25>>,
                          <<"risk_score", 20>>, <<"infrastructure", 15>> >> >> >>

\* PERSONA_WEIGHTS of score_areas.py as the module defines it when loaded
score_areas_InitialPersonaWeights ==
    <<  <<"student",   << <<"affordability", Rat(35, 100)>>, <<"commute", Rat(25, 100)>>,
                          <<"safety", Rat(15, 100)>>, <<"amenities", Rat(15, 100)>>,
                          <<"schools", Rat(0, 100)>>, <<"investment", Rat(10, 100)>> >> >>,
        <<"parent",    << <<"affordability", Rat(20, 100)>>, <<"commute", Rat(15, 100)>>,
                          <<"safety", Rat(25, 100)>>, <<"amenities", Rat(10, 100)>>,
                          <<"schools", Rat(30, 100)>>, <<"investment", Rat(0, 100)>> >> >>,
        <<"developer", << <<"affordability", Rat(10, 100)>>, <<"commute", Rat(5, 100)>>,
                          <<"safety", Rat(10, 100)>>, <<"amenities", Rat(15, 100)>>,
                          <<"schools", Rat(20, 100)>>, <<"investment", Rat(40, 100)>> >> >> >>

\* both modules have been loaded and nothing has been called
ModulesLoaded ==
    /\ PERSONA_WEIGHTS = InitialPersonaWeights
    /\ score_areas_PERSONA_WEIGHTS = score_areas_InitialPersonaWeights

\* the loop that scales each base weight: base_weight * (importance / 5.0)
scale_by_importance(persona, user_importance) ==
    LET base_weights == Lookup(PERSONA_WEIGHTS, persona)
    IN  [i \in 1..Len(base_weights) |->
            <<base_weights[i][1],
              Rat(base_weights[i][2]
                    * Get(user_importance, base_weights[i][1], 5), 5)>>]

calculate_adjusted_weights(persona, user_importance) ==
    LET base_weights == Lookup(PERSONA_WEIGHTS, persona)
    IN  IF user_importance = <<>>
        THEN [i \in 1..Len(base_weights) |->
                <<base_weights[i][1], RInt(base_weights[i][2])>>]
        ELSE
          LET adjusted == scale_by_importance(persona, user_importance)
              total == RSumValues(adjusted)
          IN  IF RLess(RInt(0), total)
              THEN [i \in 1..Len(adjusted) |->
                      <<adjusted[i][1],
                        RMul(RDiv(adjusted[i][2], total), RInt(100))>>]
              ELSE adjusted

\* Importance ratings the calls are drawn from (the scale is 0..10, 5 neutral)
Ratings == {0, 2, 5, 7, 10}

\* a factor outside every persona's table, to exercise ratings given for
\* factors the persona does not weigh
ForeignFactor == "sustainability"

RECURSIVE DictOf(_, _)
\* the dict holding f[k] for the keys of `order` (in that order) that f rates
DictOf(f, order) ==
    IF order = <<>> THEN <<>>
    ELSE IF Head(order) \notin DOMAIN f THEN DictOf(f, Tail(order))
         ELSE <<<<Head(order), f[Head(order)]>>>> \o DictOf(f, Tail(order))

ImportanceDicts(persona) ==
    LET order == Keys(Lookup(PERSONA_WEIGHTS, persona))
        own == {order[i] : i \in 1..Len(order)}
    IN  { DictOf(f, order) \o g :
            f \in UNION {[S -> Ratings] : S \in SUBSET own},
            g \in {<<>>, <<<<ForeignFactor, 10>>>>} }

PersonaSet == {Personas[i] : i \in 1..Len(Personas)}

WeightsIdle == wcall = NoValue /\ wret = NoValue

\* no concurrent writers
RaceIdle == race = NoValue

ScoreIdle == scall = NoValue /\ sret = NoValue

CacheIdle == files = <<>> /\ now = 0 /\ last = NoValue /\ ticks = 0

WInit ==
    /\ ModulesLoaded
    /\ RaceIdle
    /\ \E p \in PersonaSet : \E ui \in ImportanceDicts(p) :
          wcall = [persona |-> p, user_importance |-> ui]
    /\ wret = NoValue
    /\ ScoreIdle
    /\ CacheIdle

\* one call of calculate_adjusted_weights with the drawn arguments
CalcWeights ==
    /\ wret = NoValue
    /\ wret' = [kind |-> "return",
                adjusted |-> scale_by_importance(wcall.persona,
                                                 wcall.user_importance),
                weights |-> calculate_adjusted_weights(wcall.persona,
                                                       wcall.user_importance)]
    /\ UNCHANGED <<wcall, scall, sret, files, now, last, ticks,
                 PERSONA_WEIGHTS, score_areas_PERSONA_WEIGHTS, race>>

WNext == CalcWeights

SpecWeights == WInit /\ [][WNext]_vars

-----------------------------------------------------------------------------
(* Metric extractor, composite scorer and constraint filter:               *)
(* src/execution/score_and_rank.py                                         *)

\* the mutant is off by one: s[:n + 1]
TakeOneMore(s, n) ==
    SubSeq(s, 1, IF n + 1 < Len(s) THEN n + 1 ELSE Len(s))

\* s[:n] of Python: the first n items, or all but the last -n when n < 0
Take(s, n) ==
    LET k == IF n >= 0 THEN (IF n < Len(s) THEN n ELSE Len(s))
             ELSE (IF Len(s) + n > 0 THEN Len(s) + n ELSE 0)
    IN  SubSeq(s, 1, k)

\* s[-n:] of Python for n > 0: the last n items, or all of them
LastN(s, n) == IF Len(s) <= n THEN s ELSE SubSeq(s, Len(s) - n + 1, Len(s))

Reverse(s) == [i \in 1..Len(s) |-> s[Len(s) + 1 - i]]

RECURSIVE InsertDescBeforeEqual(_, _)
\* the mutant puts x in front of the pairs with an equal key (an unstable sort)
InsertDescBeforeEqual(sorted, x) ==
    IF sorted = <<>> THEN <<x>>
    ELSE IF RLeq(Head(sorted)[1], x[1]) THEN <<x>> \o sorted
         ELSE <<Head(sorted)>> \o InsertDescBeforeEqual(Tail(sorted), x)

RECURSIVE InsertDesc(_, _)
\* insert pair x = <<key, item>> into a sequence sorted by descending key,
\* behind every pair whose key is not smaller (so equal keys keep their order)
InsertDesc(sorted, x) ==
    IF sorted = <<>> THEN <<x>>
    ELSE IF RLess(Head(sorted)[1], x[1]) THEN <<x>> \o sorted
         ELSE <<Head(sorted)>> \o InsertDesc(Tail(sorted), x)

RECURSIVE SortDescFrom(_, _)
SortDescFrom(pairs, acc) ==
    IF pairs = <<>> THEN acc
    ELSE SortDescFrom(Tail(pairs), InsertDesc(acc, Head(pairs)))

\* list.sort(key=..., reverse=True) / sorted(..., reverse=True): a stable sort
\* of <<key, item>> pairs by descending key
SortDesc(pairs) == SortDescFrom(pairs, <<>>)

\* 100 - duration / 60 * 100, clamped to 0..100
\* the mutant reaches 0 at 90 minutes in place of 60
CommuteScoreOverNinety(duration) ==
    RMax(RInt(0), RMin(RInt(100), RAdd(RInt(100), Rat(-(duration * 100), 90))))

CommuteScore(duration) ==
    RMax(RInt(0), RMin(RInt(100), RAdd(RInt(100), Rat(-(duration * 100), 60))))

calculate_factor_scores(area_data, persona) ==
    LET sub(name) == Lookup(area_data, name)
        from(name, pairs) == IF Has(area_data, name) THEN pairs ELSE <<>>
    IN  from("scansan",
             << <<"affordability", RInt(Get(sub("scansan"), "affordability_score", 50))>>,
                <<"investment_quality", RInt(Get(sub("scansan"), "investment_quality", 50))>>,
                <<"demand_index", RInt(Get(sub("scansan"), "demand_index", 50))>>,
                <<"risk_score", RInt(Get(sub("scansan"), "risk_score", 50))>> >>)
        \o from("commute",
             << <<"commute", CommuteScore(Get(sub("commute"), "duration_minutes", 60))>> >>)
        \o from("crime",
             << <<"safety", RInt(Get(sub("crime"), "safety_score", 50))>> >>)
        \o from("schools",
             << <<"schools", RInt(Get(sub("schools"), "avg_primary_score", 50))>> >>)
        \o from("amenities",
             << <<"amenities", RInt(Get(sub("amenities"), "density_score", 50))>> >>)
        \o from("infrastructure",
             << <<"infrastructure", RInt(Get(sub("infrastructure"), "score", 50))>> >>)

\* the mutant reports the midpoint contribution 50 * weight / 100 for a factor
\* that has no score, while the composite still leaves the factor out
FactorContributionMidpoint(scores, factor, weight) ==
    IF Has(scores, factor)
    THEN RDiv(RMul(Lookup(scores, factor), weight), RInt(100))
    ELSE RDiv(RMul(RInt(50), weight), RInt(100))

\* the contribution of one weighted factor
FactorContribution(scores, factor, weight) ==
    IF Has(scores, factor)
    THEN RDiv(RMul(Lookup(scores, factor), weight), RInt(100))
    ELSE RInt(0)

\* returns <<composite, contributions>>
calculate_composite_score(scores, weights) ==
    LET contributions == [i \in 1..Len(weights) |->
            <<weights[i][1], FactorContribution(scores, weights[i][1], weights[i][2])>>]
        counted == SelectSeq(contributions, LAMBDA c : Has(scores, c[1]))
    IN  <<RSumValues(counted), contributions>>

\* The four hard constraints of passes_constraints.  Each applies when its
\* preference and the area's sub-record are both present.  A missing avg_price
\* or duration_minutes defaults to +infinity (and so fails), a missing
\* safety_score or avg_primary_score defaults to 0.
BudgetFails(area_data, preferences) ==
    /\ Has(preferences, "budget_max") /\ Has(area_data, "scansan")
    /\ LET ss == Lookup(area_data, "scansan")
       IN  Has(ss, "avg_price") => Lookup(ss, "avg_price") > Lookup(preferences, "budget_max")

CommuteFails(area_data, preferences) ==
    /\ Has(preferences, "max_commute_minutes") /\ Has(area_data, "commute")
    /\ LET c == Lookup(area_data, "commute")
       IN  Has(c, "duration_minutes") =>
              Lookup(c, "duration_minutes") > Lookup(preferences, "max_commute_minutes")

\* the mutant leaves the safety constraint out of the filter
SafetyNotChecked(area_data, preferences) == FALSE

SafetyFails(area_data, preferences) ==
    /\ Has(preferences, "min_safety_score") /\ Has(area_data, "crime")
    /\ Get(Lookup(area_data, "crime"), "safety_score", 0)
          < Lookup(preferences, "min_safety_score")

SchoolFails(area_data, preferences) ==
    /\ Has(preferences, "min_school_rating") /\ Has(area_data, "schools")
    /\ Get(Lookup(area_data, "schools"), "avg_primary_score", 0)
          < Lookup(preferences, "min_school_rating")

passes_constraints(area_data, preferences) ==
    /\ ~BudgetFails(area_data, preferences)
    /\ ~CommuteFails(area_data, preferences)
    /\ ~SafetyFails(area_data, preferences)
    /\ ~SchoolFails(area_data, preferences)

\* the mutant gives no reason at all
NoReason(area_data, preferences) == [text |-> "", value |-> 0, limit |-> 0]

\* the reason string, as its fixed text and the numbers formatted into it
get_filter_reason(area_data, preferences) ==
    LET price == Get(Get(area_data, "scansan", <<>>), "avg_price", 0)
        duration == Get(Get(area_data, "commute", <<>>), "duration_minutes", 0)
    IN  IF /\ Has(preferences, "budget_max") /\ Has(area_data, "scansan")
           /\ price > Lookup(preferences, "budget_max")
        THEN [text |-> "Over budget", value |-> price,
              limit |-> Lookup(preferences, "budget_max")]
        ELSE IF /\ Has(preferences, "max_commute_minutes") /\ Has(area_data, "commute")
                /\ duration > Lookup(preferences, "max_commute_minutes")
        THEN [text |-> "Commute too long", value |-> duration,
              limit |-> Lookup(preferences, "max_commute_minutes")]
        ELSE [text |-> "Did not meet constraints", value |-> 0, limit |-> 0]

-----------------------------------------------------------------------------
(* Strengths, weaknesses, trade-offs and the ranking:                      *)
(* src/execution/score_and_rank.py                                         *)

\* factor.replace("_", " ")
Spaced(factor) ==
    CASE factor = "investment_quality" -> "investment quality"
      [] factor = "demand_index" -> "demand index"
      [] factor = "risk_score" -> "risk score"
      [] OTHER -> factor

\* factor.replace("_", " ").title()
Titled(factor) ==
    CASE factor = "affordability" -> "Affordability"
      [] factor = "investment_quality" -> "Investment Quality"
      [] factor = "demand_index" -> "Demand Index"
      [] factor = "risk_score" -> "Risk Score"
      [] factor = "commute" -> "Commute"
      [] factor = "safety" -> "Safety"
      [] factor = "schools" -> "Schools"
      [] factor = "amenities" -> "Amenities"
      [] factor = "infrastructure" -> "Infrastructure"
      [] OTHER -> factor

\* returns <<strengths, weaknesses>>
identify_strengths_weaknesses(scores, persona) ==
    LET keyed == [i \in 1..Len(scores) |-> <<scores[i][2], scores[i]>>]
        sorted_keyed == SortDesc(keyed)
        sorted_scores == [i \in 1..Len(sorted_keyed) |-> sorted_keyed[i][2]]
        top == SelectSeq(Take(sorted_scores, 3), LAMBDA fs : RLeq(RInt(80), fs[2]))
        bottom == SelectSeq(Reverse(LastN(sorted_scores, 2)),
                            LAMBDA fs : RLess(fs[2], RInt(60)))
    IN  << [i \in 1..Len(top) |-> Titled(top[i][1])],
           [i \in 1..Len(bottom) |-> Titled(bottom[i][1])] >>

\* the trade-off text, as its fixed wording and the factor names joined into it
generate_trade_offs(candidate, all_top, persona) ==
    IF candidate.rank = 1
    THEN [text |-> "Top-ranked with best overall balance of factors",
          better |-> <<>>, lower |-> <<>>]
    ELSE
      LET fs == candidate.factor_scores
          top_scores == all_top[1].factor_scores
          top_score(f) == Get(top_scores, f, RInt(50))
          better_pairs == SelectSeq(fs,
              LAMBDA x : RLess(RAdd(top_score(x[1]), RInt(5)), x[2]))
          worse_pairs == SelectSeq(fs,
              LAMBDA x : /\ ~RLess(RAdd(top_score(x[1]), RInt(5)), x[2])
                         /\ RLess(x[2], RAdd(top_score(x[1]), RInt(-5))))
          better_factors == [i \in 1..Len(better_pairs) |-> Spaced(better_pairs[i][1])]
          worse_factors == [i \in 1..Len(worse_pairs) |-> Spaced(worse_pairs[i][1])]
      IN  IF better_factors # <<>> /\ worse_factors # <<>>
          THEN [text |-> "Better {} but lower {}",
                better |-> Take(better_factors, 2), lower |-> Take(worse_factors, 2)]
          ELSE IF worse_factors # <<>>
          THEN [text |-> "Lower {} than top choice",
                better |-> <<>>, lower |-> Take(worse_factors, 2)]
          ELSE [text |-> "Similar profile to top choice",
                better |-> <<>>, lower |-> <<>>]

\* the dict appended to scored_candidates for one area that passed the filter
ScoredCandidate(area_code, area_data, persona, adjusted_weights) ==
    LET scores == calculate_factor_scores(area_data, persona)
        cc == calculate_composite_score(scores, adjusted_weights)
        sw == identify_strengths_weaknesses(scores, persona)
    IN  [area_code |-> area_code,
         composite_score |-> Round1(cc[1]),
         factor_scores |-> [i \in 1..Len(scores) |-> <<scores[i][1], Round0(scores[i][2])>>],
         factor_contributions |->
             [i \in 1..Len(cc[2]) |-> <<cc[2][i][1], Round1(cc[2][i][2])>>],
         strengths |-> sw[1],
         weaknesses |-> sw[2],
         raw_data |-> area_data]

\* scored_candidates.sort(key=lambda x: x["composite_score"], reverse=True)
SortCandidates(scored_candidates) ==
    LET keyed == [i \in 1..Len(scored_candidates) |->
                     <<scored_candidates[i].composite_score, scored_candidates[i]>>]
        sorted_keyed == SortDesc(keyed)
    IN  [i \in 1..Len(sorted_keyed) |-> sorted_keyed[i][2]]

\* the loop that assigns rank and trade_offs to the top candidates
RankTop(top_candidates, persona) ==
    LET ranked == [i \in 1..Len(top_candidates) |->
                      [rank |-> i] @@ top_candidates[i]]
    IN  [i \in 1..Len(ranked) |->
            [trade_offs |-> generate_trade_offs(ranked[i], ranked, persona)]
              @@ ranked[i]]

\* the whole of score_and_rank for a valid persona; enrichment_data is a dict
\* area code -> area data
score_and_rank_result(persona, user_preferences, enrichment_data, top_n) ==
    LET adjusted_weights ==
            calculate_adjusted_weights(persona,
                Get(user_preferences, "importance_weights", <<>>))
        passing == SelectSeq(enrichment_data,
                       LAMBDA e : passes_constraints(e[2], user_preferences))
        failing == SelectSeq(enrichment_data,
                       LAMBDA e : ~passes_constraints(e[2], user_preferences))
        scored_candidates == [i \in 1..Len(passing) |->
            ScoredCandidate(passing[i][1], passing[i][2], persona, adjusted_weights)]
        filtered_out == [i \in 1..Len(failing) |->
            [area_code |-> failing[i][1],
             reason |-> get_filter_reason(failing[i][2], user_preferences)]]
        top_candidates == Take(SortCandidates(scored_candidates), top_n)
    IN  [kind |-> "return",
         persona |-> persona,
         user_preferences |-> user_preferences,
         adjusted_weights |-> adjusted_weights,
         recommendations |-> RankTop(top_candidates, persona),
         filtered_out_count |-> Len(filtered_out),
         filtered_out_reasons |-> Take(filtered_out, 5)]

score_and_rank(persona, user_preferences, enrichment_data, top_n) ==
    IF ~Has(PERSONA_WEIGHTS, persona)
    THEN [kind |-> "raise", exception |-> "ValueError"]
    ELSE score_and_rank_result(persona, user_preferences, enrichment_data, top_n)

-----------------------------------------------------------------------------
(* The calls of score_and_rank that are explored                           *)

\* Candidate areas.  E1 is the sample area of score_and_rank.py with an
\* investment quality of 70; E2 has one more minute of commute and two more
\* points of amenities, so that for a student the two composites (79.9833 for
\* E1 and 79.9667 for E2) differ and round to the same tenth, while for a
\* developer the two are exactly equal; SW1 is expensive and has every sub-record; N1
\* has no property record, a long commute and low safety and school scores;
\* W2 has a property record without a price.
AreaPool ==
    << <<"E1",  << <<"scansan", << <<"affordability_score", 92>>,
                                   <<"investment_quality", 70>>,
                                   <<"avg_price", 1000>> >> >>,
                   <<"commute", << <<"duration_minutes", 25>> >> >>,
                   <<"crime", << <<"safety_score", 78>> >> >>,
                   <<"amenities", << <<"density_score", 90>> >> >> >> >>,
       <<"E2",  << <<"scansan", << <<"affordability_score", 92>>,
                                   <<"investment_quality", 70>>,
                                   <<"avg_price", 1100>> >> >>,
                   <<"commute", << <<"duration_minutes", 26>> >> >>,
                   <<"crime", << <<"safety_score", 78>> >> >>,
                   <<"amenities", << <<"density_score", 92>> >> >> >> >>,
       <<"SW1", << <<"scansan", << <<"affordability_score", 25>>,
                                   <<"investment_quality", 90>>,
                                   <<"demand_index", 80>>,
                                   <<"risk_score", 30>>,
                                   <<"avg_price", 2500>> >> >>,
                   <<"commute", << <<"duration_minutes", 10>> >> >>,
                   <<"crime", << <<"safety_score", 60>> >> >>,
                   <<"schools", << <<"avg_primary_score", 85>> >> >>,
                   <<"amenities", << <<"density_score", 95>> >> >>,
                   <<"infrastructure", << <<"score", 70>> >> >> >> >>,
       <<"N1",  << <<"commute", << <<"duration_minutes", 75>> >> >>,
                   <<"crime", << <<"safety_score", 40>> >> >>,
                   <<"schools", << <<"avg_primary_score", 45>> >> >> >> >>,
       <<"W2",  << <<"scansan", << <<"affordability_score", 60>>,
                                   <<"investment_quality", 55>> >> >>,
                   <<"commute", << <<"duration_minutes", 20>> >> >>,
                   <<"crime", << <<"safety_score", 85>> >> >>,
                   <<"amenities", << <<"density_score", 50>> >> >> >> >> >>

\* the most areas one call's enrichment_data holds
MaxAreas == 3

\* every enrichment_data of at most n areas of the pool, in every insertion order
RECURSIVE EnrichmentDicts(_)
EnrichmentDicts(n) ==
    IF n = 0 THEN {<<>>}
    ELSE LET shorter == EnrichmentDicts(n - 1)
         IN  shorter \cup
             { Append(d, AreaPool[i]) :
                 d \in {x \in shorter : Len(x) = n - 1},
                 i \in 1..Len(AreaPool) }

DistinctKeys(d) == Cardinality(KeySet(d)) = Len(d)

\* thresholds and ratings of the sample call in score_and_rank.py, and the
\* minimum scores a caller may ask for
PreferenceOptions ==
    << {<<>>, << <<"budget_max", 1200>> >>},
       {<<>>, << <<"max_commute_minutes", 30>> >>},
       {<<>>, << <<"min_safety_score", 50>> >>},
       {<<>>, << <<"min_school_rating", 50>> >>},
       {<<>>, << <<"importance_weights",
                   << <<"affordability", 8>>, <<"commute", 7>> >> >> >>} >>

PreferenceDicts ==
    { a \o b \o c \o d \o e :
        a \in PreferenceOptions[1], b \in PreferenceOptions[2],
        c \in PreferenceOptions[3], d \in PreferenceOptions[4],
        e \in PreferenceOptions[5] }

\* top_n: the default 10 and small limits that cut the list
TopNs == {1, 2, 10}

\* persona names a caller may pass; "investor" is in no table
PersonaNames == PersonaSet \cup {"investor"}

SInit ==
    /\ ModulesLoaded
    /\ RaceIdle
    /\ \E p \in PersonaNames, prefs \in PreferenceDicts,
          data \in {d \in EnrichmentDicts(MaxAreas) : DistinctKeys(d)},
          n \in TopNs :
          scall = [persona |-> p, user_preferences |-> prefs,
                   enrichment_data |-> data, top_n |-> n]
    /\ sret = NoValue
    /\ WeightsIdle
    /\ CacheIdle

\* one call of score_and_rank with the drawn arguments (the timestamp of the
\* result, which nothing reads, is left out)
ScoreAndRank ==
    /\ sret = NoValue
    /\ sret' = score_and_rank(scall.persona, scall.user_preferences,
                              scall.enrichment_data, scall.top_n)
    /\ UNCHANGED <<wcall, wret, scall, files, now, last, ticks,
                 PERSONA_WEIGHTS, score_areas_PERSONA_WEIGHTS, race>>

SNext == ScoreAndRank

\* Calls with many areas, to fill filtered_out beyond its sample of five: the
\* pool's areas under further area codes.  With the budget and the safety
\* threshold set, all but E1 and E2 are removed.
ManyAreas ==
    << AreaPool[3], <<"SW3", AreaPool[3][2]>>, AreaPool[4], AreaPool[1],
       <<"N2", AreaPool[4][2]>>, <<"SW5", AreaPool[3][2]>>, AreaPool[5],
       <<"N3", AreaPool[4][2]>>, AreaPool[2] >>

\* the fewest areas such a call holds
FewestOfMany == 7

\* the areas of ManyAreas at the given positions, in list order
PickAreas(positions) ==
    SelectSeq(ManyAreas, LAMBDA a : \E i \in positions : ManyAreas[i] = a)

ManyEnrichmentDicts ==
    LET picked == { PickAreas(S) : S \in { T \in SUBSET (1..Len(ManyAreas)) :
                                             Cardinality(T) >= FewestOfMany } }
    IN  picked \cup { Reverse(d) : d \in picked }

MInit ==
    /\ ModulesLoaded
    /\ RaceIdle
    /\ \E p \in PersonaNames, prefs \in PreferenceDicts,
          data \in ManyEnrichmentDicts, n \in TopNs :
          scall = [persona |-> p, user_preferences |-> prefs,
                   enrichment_data |-> data, top_n |-> n]
    /\ sret = NoValue
    /\ WeightsIdle
    /\ CacheIdle

SpecMany == MInit /\ [][SNext]_vars

-----------------------------------------------------------------------------
(* The second scoring engine: src/tools/score_areas.py                     *)
(*                                                                         *)
(* Its names that the first engine also uses carry the prefix score_areas. *)
(* Its weights are fractions of 1.                                         *)

\* the loop weights[factor] *= 0.5 + user_weight / 10 over the factors of
\* user_weights that the persona weighs
score_areas_scaled_weights(weights, user_weights) ==
    [i \in 1..Len(weights) |->
        IF Has(user_weights, weights[i][1])
        THEN <<weights[i][1],
               RMul(weights[i][2],
                    Rat(5 + Lookup(user_weights, weights[i][1]), 10))>>
        ELSE weights[i]]

\* the mutant runs the loop on the table's own dict for the persona: the
\* scaled weights stay in the table
score_areas_scaled_in_place(table, persona, user_weights) ==
    IF user_weights = <<>> THEN table
    ELSE Put(table, IF Has(table, persona) THEN persona ELSE "student",
             score_areas_scaled_weights(
                 Get(table, persona, Lookup(table, "student")), user_weights))

\* the table after one call of calculate_composite_score: .copy() makes the
\* dict that the loop scales a new one, and the table's dict is not written
score_areas_scaled_on_copy(table, persona, user_weights) == table

RECURSIVE score_areas_table_after(_, _, _, _)
\* the table after calculate_composite_score has run for each of `count`
\* areas
score_areas_table_after(table, persona, user_weights, count) ==
    IF count = 0 THEN table
    ELSE score_areas_table_after(
             score_areas_scaled_on_copy(table, persona, user_weights),
             persona, user_weights, count - 1)

\* the weights calculate_composite_score applies
score_areas_weights(persona, user_weights) ==
    LET weights == Get(score_areas_PERSONA_WEIGHTS, persona,
                       Lookup(score_areas_PERSONA_WEIGHTS, "student"))
    IN  IF user_weights = <<>> THEN weights
        ELSE LET scaled == score_areas_scaled_weights(weights, user_weights)
                 total == RSumValues(scaled)
             IN  IF RLess(RInt(0), total)
                 THEN [i \in 1..Len(scaled) |->
                          <<scaled[i][1], RDiv(scaled[i][2], total)>>]
                 ELSE scaled

\* 100 - min(100, duration_minutes / 60 * 100)
score_areas_commute_score(duration) ==
    RAdd(RInt(100), RMul(RInt(-1), RMin(RInt(100), Rat(duration * 100, 60))))

score_areas_factor_scores(enrichment_data) ==
    LET sub(name) == Get(enrichment_data, name, <<>>)
    IN  << <<"affordability", RInt(Get(sub("scansan"), "affordability_score", 50))>>,
           <<"commute", score_areas_commute_score(
                            Get(sub("commute"), "duration_minutes", 30))>>,
           <<"safety", RInt(Get(sub("crime"), "safety_score", 50))>>,
           <<"amenities", RInt(Get(sub("amenities"), "density_score", 50))>>,
           <<"schools", RInt(Get(sub("schools"), "avg_quality_score", 50))>>,
           <<"investment", RInt(Get(sub("scansan"), "investment_quality", 50))>> >>

\* factor_scores[factor] * weight for every weighted factor
score_areas_contributions(factor_scores, weights) ==
    [i \in 1..Len(weights) |->
        <<weights[i][1], RMul(Lookup(factor_scores, weights[i][1]), weights[i][2])>>]

FirstOfEach(pairs) == [i \in 1..Len(pairs) |-> pairs[i][1]]

SecondOfEach(pairs) == [i \in 1..Len(pairs) |-> pairs[i][2]]

\* sorted(contributions.items(), key=score, reverse=True)
score_areas_sorted_factors(factor_scores) ==
    SecondOfEach(SortDesc([i \in 1..Len(factor_scores) |->
                              <<factor_scores[i][2], factor_scores[i]>>]))

\* the dict calculate_composite_score returns
score_areas_score_data(factor_scores, weights, sorted_factors) ==
    [composite_score |->
         Round1(RSumValues(score_areas_contributions(factor_scores, weights))),
     factor_scores |-> factor_scores,
     weights_applied |-> weights,
     contributions |-> score_areas_contributions(factor_scores, weights),
     strengths |-> FirstOfEach(SelectSeq(Take(sorted_factors, 2),
                                         LAMBDA fs : RLeq(RInt(70), fs[2]))),
     weaknesses |-> FirstOfEach(SelectSeq(sorted_factors,
                                          LAMBDA fs : RLess(fs[2], RInt(50))))]

score_areas_scored(factor_scores, weights) ==
    score_areas_score_data(factor_scores, weights,
                           score_areas_sorted_factors(factor_scores))

score_areas_calculate_composite_score(enrichment_data, persona, user_weights) ==
    score_areas_scored(score_areas_factor_scores(enrichment_data),
                       score_areas_weights(persona, user_weights))

\* the recommendation rank_areas builds for one area dict, rank still 0
score_areas_rec(area_data, area_code, score_data) ==
    [area_code |-> area_code,
     area_name |-> Get(Get(area_data, "scansan", <<>>), "area_name", area_code),
     rank |-> 0,
     composite_score |-> score_data.composite_score,
     factor_breakdown |-> score_data.factor_scores,
     strengths |-> score_data.strengths,
     weaknesses |-> score_data.weaknesses,
     enrichment_data |-> area_data]

score_areas_recommendation(area_data, persona, user_weights) ==
    score_areas_rec(area_data, Get(area_data, "area_code", "None"),
        score_areas_calculate_composite_score(area_data, persona, user_weights))

\* for i, rec in enumerate(recommendations[:limit], 1): rec["rank"] = i
score_areas_ranked(top) ==
    [kind |-> "return",
     recommendations |-> [i \in 1..Len(top) |-> [rank |-> i] @@ top[i]]]

\* enriched_areas is a list of area dicts, each holding its area_code
rank_areas(enriched_areas, persona, user_weights, limit) ==
    score_areas_ranked(Take(SortCandidates(
        [i \in 1..Len(enriched_areas) |->
            score_areas_recommendation(enriched_areas[i], persona, user_weights)]),
        limit))

-----------------------------------------------------------------------------
(* Calls of either scoring entry point                                     *)

\* the most areas one of these calls holds
MaxEngineAreas == 2

\* the area dict rank_areas takes for an entry of an enrichment_data dict
AreaDict(entry) == << <<"area_code", entry[1]>> >> \o entry[2]

UserWeights ==
    {<<>>, << <<"affordability", 8>>, <<"commute", 7>> >>,
     << <<"schools", 0>>, <<"investment", 10>>, <<ForeignFactor, 10>> >>}

EInit ==
    /\ ModulesLoaded
    /\ RaceIdle
    /\ \/ \E p \in PersonaNames, prefs \in PreferenceDicts,
             data \in {d \in EnrichmentDicts(MaxEngineAreas) : DistinctKeys(d)},
             n \in TopNs :
             scall = [entry_point |-> "score_and_rank", persona |-> p,
                      user_preferences |-> prefs, enrichment_data |-> data,
                      top_n |-> n]
       \/ \E p \in PersonaNames, uw \in UserWeights,
             data \in {d \in EnrichmentDicts(MaxEngineAreas + 1) : DistinctKeys(d)},
             n \in TopNs :
             scall = [entry_point |-> "rank_areas", persona |-> p,
                      user_weights |-> uw,
                      enriched_areas |-> [i \in 1..Len(data) |-> AreaDict(data[i])],
                      limit |-> n]
    /\ sret = NoValue
    /\ WeightsIdle
    /\ CacheIdle

\* one call of score_and_rank among the calls of either entry point
ScoreAndRankCall ==
    /\ scall.entry_point = "score_and_rank"
    /\ ScoreAndRank

\* one call of rank_areas with the drawn arguments
RankAreas ==
    /\ scall.entry_point = "rank_areas"
    /\ sret = NoValue
    /\ sret' = rank_areas(scall.enriched_areas, scall.persona,
                          scall.user_weights, scall.limit)
    /\ score_areas_PERSONA_WEIGHTS' =
           score_areas_table_after(score_areas_PERSONA_WEIGHTS, scall.persona,
                                   scall.user_weights, Len(scall.enriched_areas))
    /\ UNCHANGED <<wcall, wret, scall, files, now, last, ticks,
                   PERSONA_WEIGHTS, race>>

ENext == ScoreAndRankCall \/ RankAreas

SpecEngines == EInit /\ [][ENext]_vars

\* Calls made one after another in one process.  Each round holds one call
\* of calculate_adjusted_weights and one of score_and_rank or rank_areas;
\* `last` tells whether a call of an earlier round came with ratings.
RoundRatings(persona) ==
    {<<>>,
     << <<Keys(Lookup(InitialPersonaWeights, persona))[1], 10>> >>,
     << <<Keys(Lookup(InitialPersonaWeights, persona))[1], 0>>,
        <<ForeignFactor, 10>> >>}

RoundAreas == {<<AreaPool[1]>>, <<AreaPool[3], AreaPool[4]>>}

RoundScoreCalls ==
    { [entry_point |-> "score_and_rank", persona |-> p, user_preferences |-> prefs,
       enrichment_data |-> data, top_n |-> 10] :
        p \in PersonaSet, prefs \in PreferenceOptions[5], data \in RoundAreas }
    \cup
    { [entry_point |-> "rank_areas", persona |-> p, user_weights |-> uw,
       enriched_areas |-> [i \in 1..Len(data) |-> AreaDict(data[i])],
       limit |-> 10] :
        p \in PersonaNames, uw \in UserWeights, data \in RoundAreas }

\* the round's calls came with importance ratings
RoundRated ==
    \/ wcall.user_importance # <<>>
    \/ scall.entry_point = "rank_areas" /\ scall.user_weights # <<>>
    \/ /\ scall.entry_point = "score_and_rank"
       /\ Has(scall.user_preferences, "importance_weights")

TInit ==
    /\ ModulesLoaded
    /\ RaceIdle
    /\ \E p \in PersonaSet : \E ui \in RoundRatings(p) :
          wcall = [persona |-> p, user_importance |-> ui]
    /\ scall \in RoundScoreCalls
    /\ wret = NoValue
    /\ sret = NoValue
    /\ files = <<>> /\ now = 0 /\ ticks = 0
    /\ last = [op |-> "calls", rated |-> FALSE]

\* both calls of the round have returned and the next two are made
NextCalls ==
    /\ wret # NoValue
    /\ sret # NoValue
    /\ \E p \in PersonaSet : \E ui \in RoundRatings(p) :
          wcall' = [persona |-> p, user_importance |-> ui]
    /\ scall' \in RoundScoreCalls
    /\ wret' = NoValue
    /\ sret' = NoValue
    /\ last' = [op |-> "calls", rated |-> last.rated \/ RoundRated]
    /\ UNCHANGED <<files, now, ticks,
                   PERSONA_WEIGHTS, score_areas_PERSONA_WEIGHTS, race>>

TNext == CalcWeights \/ ScoreAndRankCall \/ RankAreas \/ NextCalls

SpecTables == TInit /\ [][TNext]_vars

\* Areas for the calls that look at single factor scores.  E1 is the sample
\* area of score_and_rank.py with no investment quality in its property
\* record; B1 is E1 with four points less of affordability and an investment
\* quality of 70; N9 has a negative commute duration, Z0 none at all and
\* every sub-record, F6 an hour and F12 two hours.
ScenarioAreas ==
    << <<"E1",  << <<"scansan", << <<"affordability_score", 92>> >> >>,
                   <<"commute", << <<"duration_minutes", 25>> >> >>,
                   <<"crime", << <<"safety_score", 78>> >> >>,
                   <<"amenities", << <<"density_score", 90>> >> >> >> >>,
       <<"B1",  << <<"scansan", << <<"affordability_score", 88>>,
                                   <<"investment_quality", 70>> >> >>,
                   <<"commute", << <<"duration_minutes", 25>> >> >>,
                   <<"crime", << <<"safety_score", 78>> >> >>,
                   <<"amenities", << <<"density_score", 90>> >> >> >> >>,
       <<"N9",  << <<"scansan", << <<"affordability_score", 50>> >> >>,
                   <<"commute", << <<"duration_minutes", -6>> >> >>,
                   <<"crime", << <<"safety_score", 50>> >> >> >> >>,
       <<"Z0",  << <<"scansan", << <<"affordability_score", 85>>,
                                   <<"investment_quality", 85>>,
                                   <<"demand_index", 81>>,
                                   <<"risk_score", 20>> >> >>,
                   <<"commute", << <<"duration_minutes", 0>> >> >>,
                   <<"crime", << <<"safety_score", 55>> >> >>,
                   <<"schools", << <<"avg_primary_score", 90>>,
                                   <<"avg_quality_score", 90>> >> >>,
                   <<"amenities", << <<"density_score", 40>> >> >> >> >>,
       <<"F6",  << <<"commute", << <<"duration_minutes", 60>> >> >>,
                   <<"crime", << <<"safety_score", 100>> >> >> >> >>,
       <<"F12", << <<"scansan", << <<"affordability_score", 30>> >> >>,
                   <<"commute", << <<"duration_minutes", 120>> >> >> >> >> >>

\* the most areas one of these calls holds
MaxScenarioAreas == 2

RECURSIVE ScenarioDicts(_)
ScenarioDicts(n) ==
    IF n = 0 THEN {<<>>}
    ELSE ScenarioDicts(n - 1) \cup
         { Append(d, ScenarioAreas[i]) :
             d \in {x \in ScenarioDicts(n - 1) : Len(x) = n - 1},
             i \in 1..Len(ScenarioAreas) }

ScenarioPreferences == {<<>>, << <<"max_commute_minutes", 90>> >>}

ScenarioInit ==
    /\ ModulesLoaded
    /\ RaceIdle
    /\ \E p \in PersonaNames,
          data \in {d \in ScenarioDicts(MaxScenarioAreas) : DistinctKeys(d)},
          n \in TopNs :
          \/ \E prefs \in ScenarioPreferences :
               scall = [entry_point |-> "score_and_rank", persona |-> p,
                        user_preferences |-> prefs, enrichment_data |-> data,
                        top_n |-> n]
          \/ \E uw \in UserWeights :
               scall = [entry_point |-> "rank_areas", persona |-> p,
                        user_weights |-> uw,
                        enriched_areas |-> [i \in 1..Len(data) |-> AreaDict(data[i])],
                        limit |-> n]
    /\ sret = NoValue
    /\ WeightsIdle
    /\ CacheIdle

SpecScenarios == ScenarioInit /\ [][ENext]_vars

SpecScore == SInit /\ [][SNext]_vars

-----------------------------------------------------------------------------
(* Cache store: src/tools/cache_manager.py                                 *)
(*                                                                         *)
(* Strings that name files are sequences of tokens, with every separator   *)
(* ("_", "/", "\", " ") a token of its own, so that concatenation and      *)
(* str.replace are what they are in the code.  Time is in seconds.         *)

Str1(a) == <<a>>

Str3(a, b, c) == <<a, b, c>>

\* the TTL table: hours, or infinity
Hours(h) == [inf |-> FALSE, hours |-> h]

Infinity == [inf |-> TRUE, hours |-> 0]

CACHE_VALIDITY ==
    << <<Str3("scansan", "_", "property"), Hours(24)>>,
       <<Str3("scansan", "_", "trends"), Hours(168)>>,
       <<Str3("tfl", "_", "commute"), Hours(168)>>,
       <<Str1("crime"), Hours(720)>>,
       <<Str1("schools"), Hours(2160)>>,
       <<Str1("amenities"), Hours(720)>>,
       <<Str3("video", "_", "url"), Infinity>> >>

\* key.replace("/", "_").replace("\\", "_").replace(" ", "_")
SafeKey(key) ==
    [i \in 1..Len(key) |-> IF key[i] \in {"/", "\\", " "} THEN "_" ELSE key[i]]

\* the file name inside CACHE_DIR
get_cache_path(cache_type, key) ==
    cache_type \o <<"_">> \o SafeKey(key) \o <<".json">>

\* Python values: [t |-> type, v |-> content]; the content of a str or an int
\* is its text, that of a dict a sequence of <<key, value>> pairs, that of a
\* list or tuple a sequence of values
PyNone == [t |-> "None", v |-> <<>>]

PyStr(text) == [t |-> "str", v |-> <<text>>]

PyInt(digits) == [t |-> "int", v |-> <<digits>>]

PyDict(pairs) == [t |-> "dict", v |-> pairs]

PyList(items) == [t |-> "list", v |-> items]

PyTuple(items) == [t |-> "tuple", v |-> items]

RECURSIVE PutAll(_, _)
\* the dict built from a list of pairs: a repeated key keeps its first place
\* and takes its last value
PutAll(d, pairs) ==
    IF pairs = <<>> THEN d
    ELSE PutAll(Put(d, Head(pairs)[1], Head(pairs)[2]), Tail(pairs))

RECURSIVE json_dump(_)
\* the JSON text json.dump writes for a value, as the tree it denotes: dict
\* keys become strings, tuples become arrays
json_dump(x) ==
    CASE x.t = "dict" ->
           [t |-> "object",
            v |-> [i \in 1..Len(x.v) |-> <<x.v[i][1].v[1], json_dump(x.v[i][2])>>]]
      [] x.t \in {"list", "tuple"} ->
           [t |-> "array", v |-> [i \in 1..Len(x.v) |-> json_dump(x.v[i])]]
      [] x.t = "str" -> [t |-> "string", v |-> x.v]
      [] x.t = "int" -> [t |-> "number", v |-> x.v]
      [] OTHER -> [t |-> "null", v |-> <<>>]

RECURSIVE json_load(_)
\* the value json.load builds from a JSON tree
json_load(j) ==
    CASE j.t = "object" ->
           PyDict(PutAll(<<>>, [i \in 1..Len(j.v) |->
                                  <<PyStr(j.v[i][1]), json_load(j.v[i][2])>>]))
      [] j.t = "array" -> PyList([i \in 1..Len(j.v) |-> json_load(j.v[i])])
      [] j.t = "string" -> [t |-> "str", v |-> j.v]
      [] j.t = "number" -> [t |-> "int", v |-> j.v]
      [] OTHER -> PyNone

\* datetime.isoformat() and datetime.fromisoformat() on the clock's seconds
IsoFormat(seconds) == <<"iso", seconds>>

FromIsoFormat(text) == text[2]

\* What a file of the cache directory holds.  A well-formed entry is the
\* object write_cache dumps; the other kinds are files json.load or the
\* freshness check cannot handle.
Entry(timestamp, cache_type, key, data) ==
    [kind |-> "entry", timestamp |-> IsoFormat(timestamp),
     cache_type |-> cache_type, cache_key |-> key, data |-> json_dump(data)]

InvalidJson == [kind |-> "invalid_json"]

NotAnObject == [kind |-> "not_object"]

NoTimestamp == [kind |-> "no_timestamp"]

BadTimestamp == [kind |-> "bad_timestamp"]

CorruptContents == {InvalidJson, NotAnObject, NoTimestamp, BadTimestamp}

Return(value) == [kind |-> "return", value |-> value]

Raise(exception) == [kind |-> "raise", exception |-> exception]

\* max_age_hours is <<>> for None and <<h>> for h hours
NoMaxAge == <<>>

\* the outcome of read_cache against a cache directory `dir` at time `clock`
read_cache_at(dir, clock, cache_type, key, max_age_arg) ==
    LET cache_path == get_cache_path(cache_type, key)
    IN  IF cache_path \notin DOMAIN dir THEN Return(PyNone)
        ELSE
          LET cached_data == dir[cache_path]
          IN  CASE cached_data.kind = "invalid_json" -> Return(PyNone)
                [] cached_data.kind = "not_object" -> Raise("AttributeError")
                [] cached_data.kind = "no_timestamp" -> Return(PyNone)
                [] cached_data.kind = "bad_timestamp" -> Raise("ValueError")
                [] OTHER ->
                     LET max_age_hours ==
                             IF max_age_arg = NoMaxAge
                             THEN Get(CACHE_VALIDITY, cache_type, Hours(24))
                             ELSE Hours(max_age_arg[1])
                         age == clock - FromIsoFormat(cached_data.timestamp)
                     IN  IF max_age_hours.inf THEN Raise("OverflowError")
                         ELSE IF age > max_age_hours.hours * 3600
                         THEN Return(PyNone)
                         ELSE Return(json_load(cached_data.data))

read_cache(cache_type, key, max_age_arg) ==
    read_cache_at(files, now, cache_type, key, max_age_arg)

\* the mutant deletes the file of an entry it reports as a miss
read_cache_evicts(dir, clock, cache_type, key, max_age_arg) ==
    IF read_cache_at(dir, clock, cache_type, key, max_age_arg) = Return(PyNone)
    THEN [f \in DOMAIN dir \ {get_cache_path(cache_type, key)} |-> dir[f]]
    ELSE dir

\* the cache directory after read_cache: the file is opened for reading
\* only, and no branch removes or rewrites it
read_cache_leaves(dir, clock, cache_type, key, max_age_arg) == dir

\* the cache directory after a successful write_cache
written(dir, clock, cache_type, key, data) ==
    (get_cache_path(cache_type, key) :> Entry(clock, cache_type, key, data)) @@ dir

-----------------------------------------------------------------------------
(* Cache-aside fetchers: src/tools/fetch_*.py                              *)

\* `if cached:` / `if data:` of Python: None and the empty dict are falsy
Truthy(x) == x.t # "None" /\ ~(x.t \in {"dict", "list", "tuple", "str"} /\ x.v = <<>>)

\* The body shared by fetch_scansan_data, fetch_commute_data, fetch_crime_data
\* and fetch_amenities_data: <<cache directory afterwards, outcome, upstream
\* called>>.  `upstream` is what the API call returns if it is made, `disk_ok`
\* whether write_cache can open its file, `always_write` is TRUE for
\* fetch_schools_data, which writes whatever it built.
cache_aside(cache_type, key, use_cache, upstream, disk_ok, always_write) ==
    LET cached == IF use_cache THEN read_cache(cache_type, key, NoMaxAge)
                  ELSE Return(PyNone)
    IN  IF cached.kind = "raise" THEN <<files, cached, FALSE>>
        ELSE IF use_cache /\ Truthy(cached.value) THEN <<files, cached, FALSE>>
        ELSE IF (always_write \/ Truthy(upstream)) /\ use_cache /\ disk_ok
        THEN <<written(files, now, cache_type, key, upstream), Return(upstream), TRUE>>
        ELSE <<files, Return(upstream), TRUE>>

-----------------------------------------------------------------------------
(* The cache operations that are explored                                  *)

\* payloads: two that JSON represents as they are, and one holding a tuple
Clean1 == PyDict(<< <<PyStr("safety_score"), PyInt("78")>> >>)

Clean2 == PyDict(<< <<PyStr("safety_score"), PyInt("60")>> >>)

WithTuple == PyDict(<< <<PyStr("coords"), PyTuple(<<PyInt("51"), PyInt("0")>>)>> >>)

Payloads == {Clean1, Clean2, WithTuple}

\* categories read and written directly: one with a finite TTL in the table,
\* the one that never expires, and one the table does not list
CacheTypes == {Str1("crime"), Str3("video", "_", "url"), Str1("explanation")}

CacheKeys == {Str1("E1"), Str3("E1", " ", "6AN")}

\* area codes the fetchers are called for, and the commute destination
FetchAreas == {Str1("E1")}

Destination == Str1("UCL")

\* explicit max_age_hours arguments of read_cache
ExplicitMaxAge == 1

MaxAgeArgs == {NoMaxAge, <<ExplicitMaxAge>>}

\* the most files the cache directory holds, and the most clock advances
MaxFiles == 1

MaxTicks == 2

LastOp == IF last = NoValue THEN "none" ELSE last.op

CInit ==
    /\ ModulesLoaded
    /\ RaceIdle
    /\ files = <<>>
    /\ now = 0
    /\ last = NoValue
    /\ ticks = 0
    /\ WeightsIdle
    /\ ScoreIdle

RoomFor(cache_path) ==
    cache_path \in DOMAIN files \/ Cardinality(DOMAIN files) < MaxFiles

\* what the file held that open(cache_path, 'w') truncates: <<>> if there was
\* no file, else <<contents>>
Replaced(cache_path) ==
    IF cache_path \in DOMAIN files THEN <<files[cache_path]>> ELSE <<>>

\* write_cache(cache_type, key, data) succeeding
WriteCacheTo(cache_type, key, data) ==
    /\ files' = written(files, now, cache_type, key, data)
    /\ last' = [op |-> "write", cache_type |-> cache_type, key |-> key,
                data |-> data, result |-> TRUE,
                replaced |-> Replaced(get_cache_path(cache_type, key))]
    /\ UNCHANGED <<now, ticks, wcall, wret, scall, sret,
                 PERSONA_WEIGHTS, score_areas_PERSONA_WEIGHTS, race>>

\* the same while the directory has room for the file
WriteCache(cache_type, key, data) ==
    /\ RoomFor(get_cache_path(cache_type, key))
    /\ WriteCacheTo(cache_type, key, data)

\* write_cache failing with an IOError: either open() is refused and the file
\* stays as it was, or the write breaks off after open() truncated the file
WriteCacheFails(cache_type, key) ==
    /\ \/ UNCHANGED files
       \/ /\ RoomFor(get_cache_path(cache_type, key))
          /\ files' = (get_cache_path(cache_type, key) :> InvalidJson) @@ files
    /\ last' = [op |-> "write", cache_type |-> cache_type, key |-> key,
                data |-> PyNone, result |-> FALSE, replaced |-> <<>>]
    /\ UNCHANGED <<now, ticks, wcall, wret, scall, sret,
                 PERSONA_WEIGHTS, score_areas_PERSONA_WEIGHTS, race>>

\* read_cache(cache_type, key, max_age_hours); after_write holds the payload
\* when the operation just before was a successful write to the same pair
ReadCache(cache_type, key, max_age_arg) ==
    /\ files' = read_cache_leaves(files, now, cache_type, key, max_age_arg)
    /\ last' = [op |-> "read", cache_type |-> cache_type, key |-> key,
                max_age_arg |-> max_age_arg,
                result |-> read_cache(cache_type, key, max_age_arg),
                after_write |->
                    IF /\ LastOp = "write" /\ last.result
                       /\ last.cache_type = cache_type /\ last.key = key
                    THEN <<last.data>> ELSE <<>>]
    /\ UNCHANGED <<now, ticks, wcall, wret, scall, sret,
                 PERSONA_WEIGHTS, score_areas_PERSONA_WEIGHTS, race>>

\* <<directory afterwards, result>> of invalidate_cache
invalidate_cache(dir, cache_type, key) ==
    IF get_cache_path(cache_type, key) \in DOMAIN dir
    THEN <<[f \in DOMAIN dir \ {get_cache_path(cache_type, key)} |-> dir[f]], TRUE>>
    ELSE <<dir, FALSE>>

\* one call of invalidate_cache(cache_type, key)
InvalidateCache(cache_type, key) ==
    /\ files' = invalidate_cache(files, cache_type, key)[1]
    /\ last' = [op |-> "invalidate", cache_type |-> cache_type, key |-> key,
                result |-> invalidate_cache(files, cache_type, key)[2],
                replaced |-> Replaced(get_cache_path(cache_type, key))]
    /\ UNCHANGED <<now, ticks, wcall, wret, scall, sret,
                 PERSONA_WEIGHTS, score_areas_PERSONA_WEIGHTS, race>>

\* a file of the cache directory is damaged or replaced from outside
Damage(cache_path, content) ==
    /\ cache_path \in DOMAIN files
    /\ files' = [files EXCEPT ![cache_path] = content]
    /\ last' = [op |-> "damage"]
    /\ UNCHANGED <<now, ticks, wcall, wret, scall, sret,
                 PERSONA_WEIGHTS, score_areas_PERSONA_WEIGHTS, race>>

\* the hours at which the freshness of an entry of this category may change
BoundaryHours(cache_type) ==
    LET ttl == Get(CACHE_VALIDITY, cache_type, Hours(24))
    IN  {ExplicitMaxAge} \cup (IF ttl.inf THEN {2160} ELSE {ttl.hours})

\* the clock values one second before, at and one second after a boundary of
\* an entry on disk
BoundaryTimes ==
    UNION { { FromIsoFormat(files[f].timestamp) + h * 3600 + e :
                h \in BoundaryHours(files[f].cache_type), e \in {-1, 0, 1} } :
            f \in {g \in DOMAIN files : files[g].kind = "entry"} }

\* time passes
Advance(t) ==
    /\ ticks < MaxTicks
    /\ t > now
    /\ now' = t
    /\ ticks' = ticks + 1
    /\ last' = [op |-> "advance"]
    /\ UNCHANGED <<files, wcall, wret, scall, sret,
                 PERSONA_WEIGHTS, score_areas_PERSONA_WEIGHTS, race>>

\* one call of a fetcher
Fetch(name, cache_type, key, use_cache, upstream, disk_ok, always_write) ==
    LET r == cache_aside(cache_type, key, use_cache, upstream, disk_ok, always_write)
    IN  /\ RoomFor(get_cache_path(cache_type, key))
        /\ files' = r[1]
        /\ last' = [op |-> name, cache_type |-> cache_type, key |-> key,
                    use_cache |-> use_cache, result |-> r[2], called_upstream |-> r[3]]
        /\ UNCHANGED <<now, ticks, wcall, wret, scall, sret,
                 PERSONA_WEIGHTS, score_areas_PERSONA_WEIGHTS, race>>

\* what an upstream call may return: a record, or None on failure
Upstreams == {PyNone, Clean1, Clean2}

FetchScansan ==
    \E a \in FetchAreas, uc \in BOOLEAN, up \in Upstreams, ok \in BOOLEAN :
        Fetch("fetch_scansan_data", Str3("scansan", "_", "property"), a,
              uc, up, ok, FALSE)

FetchCommute ==
    \E a \in FetchAreas, uc \in BOOLEAN, up \in Upstreams, ok \in BOOLEAN :
        Fetch("fetch_commute_data", Str3("tfl", "_", "commute"),
              a \o <<"_", "to", "_">> \o Destination, uc, up, ok, FALSE)

FetchCrime ==
    \E a \in FetchAreas, uc \in BOOLEAN, up \in Upstreams, ok \in BOOLEAN :
        Fetch("fetch_crime_data", Str3("crime", "_", "data"), a, uc, up, ok, FALSE)

FetchAmenities ==
    \E a \in FetchAreas, uc \in BOOLEAN, up \in Upstreams, ok \in BOOLEAN :
        Fetch("fetch_amenities_data", Str3("amenities", "_", "data"), a,
              uc, up, ok, FALSE)

FetchSchools ==
    \E a \in FetchAreas, uc \in BOOLEAN, up \in Upstreams \ {PyNone}, ok \in BOOLEAN :
        Fetch("fetch_schools_data", Str3("schools", "_", "data"), a, uc, up, ok, TRUE)

CNext ==
    \/ \E c \in CacheTypes, k \in CacheKeys, p \in Payloads : WriteCache(c, k, p)
    \/ \E c \in CacheTypes, k \in CacheKeys : WriteCacheFails(c, k)
    \/ \E c \in CacheTypes, k \in CacheKeys, m \in MaxAgeArgs : ReadCache(c, k, m)
    \/ \E f \in DOMAIN files, x \in CorruptContents : Damage(f, x)
    \/ \E t \in BoundaryTimes : Advance(t)

\* the fetchers, the clock and damage from outside
FNext ==
    \/ FetchScansan
    \/ FetchCommute
    \/ FetchCrime
    \/ FetchAmenities
    \/ FetchSchools
    \/ \E f \in DOMAIN files, x \in CorruptContents : Damage(f, x)
    \/ \E t \in BoundaryTimes : Advance(t)

SpecFetch == CInit /\ [][FNext]_vars

SpecCache == CInit /\ [][CNext]_vars

-----------------------------------------------------------------------------
(* The age-based sweep: clean_old_cache of src/tools/cache_manager.py      *)

\* the directory without the files of S
Without(dir, S) == [f \in DOMAIN dir \ S |-> dir[f]]

\* age > timedelta(days=max_age_days) for a well-formed entry
IsOld(content, clock, max_age_days) ==
    /\ content.kind = "entry"
    /\ clock - FromIsoFormat(content.timestamp) > max_age_days * 86400

\* files whose processing raises an exception the loop does not catch: JSON
\* that is not an object (no .get) and a timestamp fromisoformat rejects
SweepRaises(content) == content.kind \in {"not_object", "bad_timestamp"}

SweepException(content) ==
    IF content.kind = "not_object" THEN "AttributeError" ELSE "ValueError"

\* The outcomes of clean_old_cache, as pairs <<directory afterwards, result>>.
\* glob yields the files in no particular order: when a file makes the loop
\* raise, any subset of the other files may have been processed before it.
clean_old_cache(dir, clock, max_age_days) ==
    LET raising == {f \in DOMAIN dir : SweepRaises(dir[f])}
        old(S) == {f \in S : IsOld(dir[f], clock, max_age_days)}
    IN  IF raising = {}
        THEN { <<Without(dir, old(DOMAIN dir)), Return(Cardinality(old(DOMAIN dir)))>> }
        ELSE { <<Without(dir, old(S)), Raise(SweepException(dir[r]))>> :
                 r \in raising, S \in SUBSET (DOMAIN dir \ raising) }

\* max_age_days arguments of the sweep: a day, and the default 90 days
SweepDays == {1, 90}

\* the time of the sweeps
SweepNow == 91 * 86400

\* categories of the files in the directory when the sweep runs
SweepTypes == {Str1("crime"), Str3("video", "_", "url"), Str1("explanation")}

\* creation times that put an entry one second short of, at, and one second
\* past an age of max_age_days
SweepTimestamps ==
    { SweepNow - d * 86400 - e : d \in SweepDays, e \in {-1, 0, 1} }

\* what the file of one category may hold: <<>> stands for no file
SweepContents(cache_type) ==
    {<<>>} \cup { <<Entry(t, cache_type, Str1("E1"), Clean1)>> : t \in SweepTimestamps }
           \cup { <<x>> : x \in CorruptContents }

\* the directory holding the given contents
SweepDir(contents) ==
    LET present == {c \in SweepTypes : contents[c] # <<>>}
        type_of(f) == CHOOSE c \in present : get_cache_path(c, Str1("E1")) = f
    IN  [f \in {get_cache_path(c, Str1("E1")) : c \in present} |->
            contents[type_of(f)][1]]

ZInit ==
    /\ ModulesLoaded
    /\ RaceIdle
    /\ \E contents \in [SweepTypes -> UNION {SweepContents(c) : c \in SweepTypes}] :
          /\ \A c \in SweepTypes : contents[c] \in SweepContents(c)
          /\ files = SweepDir(contents)
    /\ now = SweepNow
    /\ last = NoValue
    /\ ticks = 0
    /\ WeightsIdle
    /\ ScoreIdle

\* one call of clean_old_cache(max_age_days)
CleanOldCache(max_age_days) ==
    /\ \E outcome \in clean_old_cache(files, now, max_age_days) :
          /\ files' = outcome[1]
          /\ last' = [op |-> "clean", max_age_days |-> max_age_days,
                      result |-> outcome[2], before |-> files]
    /\ UNCHANGED <<now, ticks, wcall, wret, scall, sret,
                 PERSONA_WEIGHTS, score_areas_PERSONA_WEIGHTS, race>>

ZNext == \E d \in SweepDays : CleanOldCache(d)

SpecSweep == ZInit /\ [][ZNext]_vars

-----------------------------------------------------------------------------
(* The life of an entry: reads between the operations that may end it      *)

\* a category with a finite TTL and the one that never expires
LifeTypes == {Str1("crime"), Str3("video", "_", "url")}

LifeKey == Str1("E1")

LifeNext ==
    \/ \E c \in LifeTypes : WriteCacheTo(c, LifeKey, Clean1)
    \/ \E c \in LifeTypes, m \in MaxAgeArgs : ReadCache(c, LifeKey, m)
    \/ \E c \in LifeTypes : InvalidateCache(c, LifeKey)
    \/ \E d \in SweepDays : CleanOldCache(d)
    \/ \E f \in DOMAIN files, x \in CorruptContents : Damage(f, x)
    \/ \E t \in BoundaryTimes : Advance(t)

SpecLifetime == CInit /\ [][LifeNext]_vars

-----------------------------------------------------------------------------
(* Several (category, key) pairs in one directory: invalidate_cache and    *)
(* the file names of get_cache_path                                        *)

\* The pairs used: one of its own, two whose keys differ only in ' ' versus
\* '_', and two whose category and key concatenate to the same name.
StorePairs ==
    { <<Str1("schools"), Str1("E1")>>,
      <<Str1("crime"), Str3("E1", " ", "6AN")>>,
      <<Str1("crime"), Str3("E1", "_", "6AN")>>,
      <<Str1("crime"), Str3("data", "_", "E1")>>,
      <<Str3("crime", "_", "data"), Str1("E1")>> }

StorePayloads == {Clean1, Clean2}

PNext ==
    \/ \E p \in StorePairs, d \in StorePayloads : WriteCacheTo(p[1], p[2], d)
    \/ \E p \in StorePairs : InvalidateCache(p[1], p[2])
    \/ \E p \in StorePairs : ReadCache(p[1], p[2], NoMaxAge)

SpecStore == CInit /\ [][PNext]_vars

-----------------------------------------------------------------------------
(* Two processes in write_cache on one (category, key)                     *)
(*                                                                         *)
(* open(cache_path, 'w') truncates the file and gives the process a file    *)
(* position of its own; json.dump fills the buffer of the file object,     *)
(* which reaches the file one buffer-full per write() and the rest on      *)
(* close.  The JSON text of an entry is modelled as the pieces those       *)
(* writes carry.                                                           *)

Writers == {1, 2}

RaceType == Str1("crime")

RaceKey == Str1("E1")

\* the payload {"v": items}; its text takes one piece per item
RacePayload(items) == PyDict(<< <<PyStr("v"), PyList(items)>> >>)

\* the item lists written: one that fits a single write, two that take two
RaceItems ==
    { <<PyInt("1")>>, <<PyInt("2"), PyInt("2")>>, <<PyInt("3"), PyInt("3")>> }

\* piece i of the text of the entry: the first piece opens the object and
\* holds the _cache_ fields, the last one closes it
Piece(clock, items, i) ==
    [hole |-> FALSE, first |-> i = 1, last |-> i = Len(items),
     header |-> IF i = 1 THEN <<clock>> ELSE <<>>, item |-> items[i]]

\* the zero bytes a write beyond the end of the file leaves before it
Hole == [hole |-> TRUE, first |-> FALSE, last |-> FALSE,
         header |-> <<>>, item |-> PyNone]

\* the pieces of a file after a write of `piece` at position `at`
Overlay(pieces, at, piece) ==
    [k \in 1..(IF at > Len(pieces) THEN at ELSE Len(pieces)) |->
        IF k = at THEN piece
        ELSE IF k <= Len(pieces) THEN pieces[k]
        ELSE Hole]

\* the pieces form one JSON object: it opens in the first piece only and
\* closes in the final piece only
WellFormed(pieces) ==
    /\ pieces # <<>>
    /\ \A k \in 1..Len(pieces) :
          /\ ~pieces[k].hole
          /\ pieces[k].first <=> k = 1
          /\ pieces[k].last <=> k = Len(pieces)

\* what json.load finds in a file of these pieces
Parsed(pieces) ==
    IF WellFormed(pieces)
    THEN Entry(pieces[1].header[1], RaceType, RaceKey,
               RacePayload([k \in 1..Len(pieces) |-> pieces[k].item]))
    ELSE InvalidJson

\* the cache directory holding the file of these pieces
RaceDir(pieces) == (get_cache_path(RaceType, RaceKey) :> Parsed(pieces)) @@ files

RaceInit ==
    /\ ModulesLoaded
    /\ \E a \in RaceItems, b \in RaceItems :
          race = [pieces |-> <<>>,
                  w |-> [i \in Writers |->
                           [pc |-> "start", pos |-> 0,
                            items |-> IF i = 1 THEN a ELSE b]]]
    /\ files = <<>>
    /\ now = 0
    /\ last = NoValue
    /\ ticks = 0
    /\ WeightsIdle
    /\ ScoreIdle

\* open(cache_path, 'w') of writer i
RaceOpen(i) ==
    /\ race.w[i].pc = "start"
    /\ race' = [race EXCEPT !.pieces = <<>>, !.w[i].pc = "open"]
    /\ files' = RaceDir(<<>>)
    /\ UNCHANGED <<last, now, ticks, wcall, wret, scall, sret,
                   PERSONA_WEIGHTS, score_areas_PERSONA_WEIGHTS>>

\* one write() of writer i: its next piece goes to its own file position
RaceWrite(i) ==
    /\ race.w[i].pc = "open"
    /\ race.w[i].pos < Len(race.w[i].items)
    /\ race' = [race EXCEPT
                  !.pieces = Overlay(@, race.w[i].pos + 1,
                                     Piece(now, race.w[i].items, race.w[i].pos + 1)),
                  !.w[i].pos = @ + 1]
    /\ files' = RaceDir(Overlay(race.pieces, race.w[i].pos + 1,
                                Piece(now, race.w[i].items, race.w[i].pos + 1)))
    /\ UNCHANGED <<last, now, ticks, wcall, wret, scall, sret,
                   PERSONA_WEIGHTS, score_areas_PERSONA_WEIGHTS>>

\* writer i leaves the with block and write_cache returns True
RaceClose(i) ==
    /\ race.w[i].pc = "open"
    /\ race.w[i].pos = Len(race.w[i].items)
    /\ race' = [race EXCEPT !.w[i].pc = "done"]
    /\ last' = [op |-> "write", cache_type |-> RaceType, key |-> RaceKey,
                data |-> RacePayload(race.w[i].items), result |-> TRUE,
                replaced |-> <<>>]
    /\ UNCHANGED <<files, now, ticks, wcall, wret, scall, sret,
                   PERSONA_WEIGHTS, score_areas_PERSONA_WEIGHTS>>

\* a read_cache of a third process
RaceRead ==
    /\ ReadCache(RaceType, RaceKey, NoMaxAge)

RaceNext ==
    \/ \E i \in Writers : RaceOpen(i)
    \/ \E i \in Writers : RaceWrite(i)
    \/ \E i \in Writers : RaceClose(i)
    \/ RaceRead

SpecRace == RaceInit /\ [][RaceNext]_vars

-----------------------------------------------------------------------------
(* Claims about the weight resolver                                        *)

WeightsReturned == wret # NoValue

\* sum of the returned weights is within 0.01 of 100 and none is negative
WeightsSumTo100(w) ==
    LET total == RSumValues(w)
    IN  /\ \A i \in 1..Len(w) : w[i][2][1] >= 0
        /\ 100 * Abs(total[1] - 100 * total[2]) <= total[2]

\* C1: for every persona and every assignment of ratings in 0..10 to any
\* subset of its factors (all ratings 0 included), the weight map returned by
\* calculate_adjusted_weights has non-negative values that sum to 100 +- 0.01.
C1_WeightsSumTo100 ==
    WeightsReturned => WeightsSumTo100(wret.weights)

\* the case C1 fails on: every factor of the persona rated 0
C1_AllZeroCall ==
    /\ WeightsReturned
    /\ \A f \in KeySet(Lookup(PERSONA_WEIGHTS, wcall.persona)) :
          Get(wcall.user_importance, f, 5) = 0

-----------------------------------------------------------------------------
(* Claims about score_and_rank                                             *)

Returned == sret # NoValue /\ sret.kind = "return"

Recs == sret.recommendations

\* the composite of a returned candidate before it was rounded for display
UnroundedComposite(rec) ==
    calculate_composite_score(calculate_factor_scores(rec.raw_data, sret.persona),
                              sret.adjusted_weights)[1]

\* position of an area code in the call's enrichment_data
InputIndex(area_code) ==
    CHOOSE i \in 1..Len(scall.enrichment_data) : scall.enrichment_data[i][1] = area_code

\* C2: every factor that has a weight but no entry in the factor scores
\* contributes 50 * weight / 100 to the contributions map (and so to the
\* composite), never zero.
C2_MissingFactorCountsAsMidpoint ==
    Returned =>
      \A i \in 1..Len(Recs) : \A k \in 1..Len(sret.adjusted_weights) :
        LET f == sret.adjusted_weights[k][1]
            w == sret.adjusted_weights[k][2]
        IN  ~Has(Recs[i].factor_scores, f) =>
              Lookup(Recs[i].factor_contributions, f)
                = Round1(RDiv(RMul(RInt(50), w), RInt(100)))

\* the case C2 is about: a returned candidate lacks a factor of positive weight
C2_MissingWeightedFactor ==
    /\ Returned
    /\ \E i \in 1..Len(Recs) : \E k \in 1..Len(sret.adjusted_weights) :
         /\ ~Has(Recs[i].factor_scores, sret.adjusted_weights[k][1])
         /\ RLess(RInt(0), sret.adjusted_weights[k][2])

\* C3 as stated: len(recommendations) + filtered_out_count equals the number
\* of input areas, for any top_n.
C3_CountsAddUp ==
    Returned => Len(Recs) + sret.filtered_out_count = Len(scall.enrichment_data)

Min(a, b) == IF a < b THEN a ELSE b

\* C3 as amended: the two counts add up to the number of input areas whenever
\* top_n is at least the number of areas that pass the filter; for any
\* top_n >= 0 the list holds min(top_n, passing areas) candidates, and the two
\* counts never exceed the number of input areas.
C3_CountsAddUpWithinTopN ==
    Returned =>
      LET passing == Len(scall.enrichment_data) - sret.filtered_out_count
      IN  /\ passing >= 0
          /\ Len(Recs) <= passing
          /\ scall.top_n >= passing => Len(Recs) = passing
          /\ scall.top_n >= 0 => Len(Recs) = Min(scall.top_n, passing)

\* a call that filtered an area out, returned two others and cut none
C3_FilteredAndReturned ==
    /\ Returned
    /\ sret.filtered_out_count >= 1
    /\ Len(Recs) >= 2
    /\ scall.top_n >= Len(scall.enrichment_data) - sret.filtered_out_count

\* C4: ranks are 1..N in list order; of two returned candidates the one with
\* the higher (reported) composite score has the smaller rank; two with equal
\* composite scores keep their relative order from enrichment_data.
C4_RankingStableMonotonic ==
    Returned =>
      /\ \A i \in 1..Len(Recs) : Recs[i].rank = i
      /\ \A i, j \in 1..Len(Recs) :
           /\ RLess(Recs[j].composite_score, Recs[i].composite_score)
                => Recs[i].rank < Recs[j].rank
           /\ ( /\ REq(Recs[i].composite_score, Recs[j].composite_score)
                /\ InputIndex(Recs[i].area_code) < InputIndex(Recs[j].area_code) )
                => Recs[i].rank < Recs[j].rank

\* three candidates returned, two of them tied, and the sort moved the first
\* input area away from rank 1
C4_TieAndReorder ==
    /\ Returned
    /\ Len(Recs) = 3
    /\ \E i, j \in 1..3 : i < j /\ REq(Recs[i].composite_score, Recs[j].composite_score)
    /\ \E i \in 1..2 : RLess(Recs[i + 1].composite_score, Recs[i].composite_score)
    /\ scall.enrichment_data[1][1] # Recs[1].area_code

\* C5: the order is decided by the unrounded composite: of two returned
\* candidates the one with the higher unrounded composite ranks higher, also
\* when both round to the same tenth.
C5_OrderByUnroundedComposite ==
    Returned =>
      \A i, j \in 1..Len(Recs) :
        RLess(UnroundedComposite(Recs[j]), UnroundedComposite(Recs[i]))
          => Recs[i].rank < Recs[j].rank

\* the case C5 is about: two returned candidates whose unrounded composites
\* differ and round to the same tenth
C5_SameTenthDifferentComposite ==
    /\ Returned
    /\ \E i, j \in 1..Len(Recs) :
         /\ RLess(UnroundedComposite(Recs[j]), UnroundedComposite(Recs[i]))
         /\ REq(Recs[i].composite_score, Recs[j].composite_score)

-----------------------------------------------------------------------------
(* Claims about the cache store                                            *)

JustRead == LastOp = "read"

ReadPath == get_cache_path(last.cache_type, last.key)

\* the read found a well-formed entry under its path
ReadFoundEntry == ReadPath \in DOMAIN files /\ files[ReadPath].kind = "entry"

\* age in seconds of the entry the read found
ReadAge == now - FromIsoFormat(files[ReadPath].timestamp)

\* the TTL the claims call applicable: the explicit argument, else the table
\* value of the category (24 hours for a category the table does not list)
ApplicableTTL ==
    IF last.max_age_arg = NoMaxAge
    THEN Get(CACHE_VALIDITY, last.cache_type, Hours(24))
    ELSE Hours(last.max_age_arg[1])

\* C6: a write_cache(category, key, payload) that returns success, followed
\* immediately by read_cache(category, key), returns exactly the payload.
C6_WriteThenReadReturnsPayload ==
    (JustRead /\ last.after_write # <<>> /\ last.max_age_arg = NoMaxAge)
      => last.result = Return(last.after_write[1])

\* a read right after a successful write of a payload JSON represents as it
\* is, to a category with a finite TTL
C6_ReadAfterCleanWrite ==
    /\ JustRead /\ last.after_write = <<Clean1>> /\ last.max_age_arg = NoMaxAge
    /\ last.cache_type = Str1("crime")
    /\ last.result = Return(Clean1)

\* C7: read_cache returns the stored payload iff an entry exists and its age
\* is at most the applicable TTL (fresh at T+H-1s and at T+H, a miss at
\* T+H+1s).  Stated for paths that hold a well-formed entry or no file.
C7_ReadFreshIffWithinTTL ==
    (JustRead /\ (ReadPath \notin DOMAIN files \/ ReadFoundEntry))
      => last.result =
           IF /\ ReadFoundEntry
              /\ (ApplicableTTL.inf \/ ReadAge <= ApplicableTTL.hours * 3600)
           THEN Return(json_load(files[ReadPath].data))
           ELSE Return(PyNone)

\* a hit exactly at the TTL of the category, and a miss one second later
C7_HitAtBoundary ==
    /\ JustRead /\ ReadFoundEntry /\ last.max_age_arg = NoMaxAge
    /\ ~ApplicableTTL.inf
    /\ ReadAge = ApplicableTTL.hours * 3600
    /\ last.result = Return(json_load(files[ReadPath].data))

\* C8: an entry of category video_url is returned by read_cache without a
\* max_age argument at every later time, and the read never fails.
C8_VideoUrlNeverExpires ==
    ( /\ JustRead /\ ReadFoundEntry
      /\ last.cache_type = Str3("video", "_", "url")
      /\ last.max_age_arg = NoMaxAge )
      => last.result = Return(json_load(files[ReadPath].data))

\* a video_url entry read long after it was written
C8_OldVideoUrlRead ==
    /\ JustRead /\ ReadFoundEntry
    /\ last.cache_type = Str3("video", "_", "url")
    /\ last.max_age_arg = NoMaxAge
    /\ ReadAge > 2160 * 3600

\* C10: read_cache returns a miss (None), and never raises, for a file that
\* holds invalid JSON, JSON that is not an object, no timestamp or a
\* timestamp that is not an ISO date.
C10_CorruptEntryIsMiss ==
    (JustRead /\ ReadPath \in DOMAIN files /\ files[ReadPath].kind # "entry")
      => last.result = Return(PyNone)

\* a corrupt file that read_cache does treat as a miss
C10_InvalidJsonRead ==
    /\ JustRead /\ ReadPath \in DOMAIN files
    /\ files[ReadPath].kind = "invalid_json"
    /\ last.result = Return(PyNone)

-----------------------------------------------------------------------------
(* Claims about the fetchers                                               *)

\* the TTL table's hours for the data category each fetcher caches
IntendedHours(cache_type) ==
    CASE cache_type = Str3("crime", "_", "data") -> 720
      [] cache_type = Str3("schools", "_", "data") -> 2160
      [] cache_type = Str3("amenities", "_", "data") -> 720
      [] cache_type = Str3("tfl", "_", "commute") -> 168
      [] OTHER -> 24

\* C9: an entry cached by a fetcher stays a cache hit until it is as old as
\* the TTL of its data category: 720h for crime and amenity data, 2160h for
\* school data, 168h for commute data and 24h for property data.
C9_FetcherEntriesLiveForTableTTL ==
    \A f \in DOMAIN files :
      ( /\ files[f].kind = "entry"
        /\ now - FromIsoFormat(files[f].timestamp)
              <= IntendedHours(files[f].cache_type) * 3600 )
        => read_cache(files[f].cache_type, files[f].cache_key, NoMaxAge)
              = Return(json_load(files[f].data))

\* a fetcher called again for an entry it cached 24 hours and a second ago
C9_RefetchedAfterADay ==
    /\ LastOp \in {"fetch_crime_data", "fetch_schools_data", "fetch_amenities_data"}
    /\ last.use_cache /\ last.called_upstream
    /\ now = 24 * 3600 + 1

-----------------------------------------------------------------------------
(* Further claims about the weight resolver                                *)

\* the persona's base weights as the resolver returns them when it leaves
\* them alone
BaseWeights(persona) ==
    LET base_weights == Lookup(PERSONA_WEIGHTS, persona)
    IN  [i \in 1..Len(base_weights) |->
            <<base_weights[i][1], RInt(base_weights[i][2])>>]

ScaledTotalIsZero ==
    /\ WeightsReturned
    /\ wcall.user_importance # <<>>
    /\ REq(RSumValues(wret.adjusted), RInt(0))

\* C11: when the scaled weights total zero (every factor of the persona
\* rated 0), calculate_adjusted_weights returns the persona's unmodified base
\* weights.
C11_ZeroTotalReturnsBaseWeights ==
    ScaledTotalIsZero => wret.weights = BaseWeights(wcall.persona)

\* a call whose scaled weights total zero has returned
C11_ZeroTotalCall ==
    ScaledTotalIsZero /\ \A i \in 1..Len(wret.weights) : wret.weights[i][2] = RInt(0)

\* the weight the specified multiplier 0.5 + r/10 gives: base * (5 + r) / 10
SpecifiedScaling(base_weight, r) == Rat(base_weight * (5 + r), 10)

\* C12: before normalization a factor's base weight is multiplied by
\* 0.5 + r/10 for its importance rating r (absent rating = 5): rating 5 leaves
\* it unchanged, rating 0 turns 20 into 10, rating 10 turns 20 into 30.
C12_MultiplierIsHalfPlusTenth ==
    (WeightsReturned /\ wcall.user_importance # <<>>) =>
        \A i \in 1..Len(wret.adjusted) :
            wret.adjusted[i][2] =
                SpecifiedScaling(Lookup(PERSONA_WEIGHTS, wcall.persona)[i][2],
                                 Get(wcall.user_importance, wret.adjusted[i][1], 5))

\* a call that rates a factor of base weight 20 with 0 or with 10
C12_BaseTwentyRatedExtreme ==
    /\ WeightsReturned
    /\ \E i \in 1..Len(wret.adjusted) :
          /\ Lookup(PERSONA_WEIGHTS, wcall.persona)[i][2] = 20
          /\ Get(wcall.user_importance, wret.adjusted[i][1], 5) \in {0, 10}

-----------------------------------------------------------------------------
(* Further claims about score_and_rank                                     *)

\* the distance between the sum of a recommendation's reported contributions
\* and its reported composite score
ContributionGap(rec) ==
    LET gap == RAdd(RSumValues(rec.factor_contributions),
                    RMul(RInt(-1), rec.composite_score))
    IN  Rat(Abs(gap[1]), gap[2])

\* each of the n contributions and the composite is off by at most 0.05
RoundingTolerance(rec) == Rat(Len(rec.factor_contributions) + 1, 20)

\* C13: for every candidate in the output of score_and_rank the sum of its
\* reported factor_contributions equals its reported composite_score within
\* rounding tolerance, each value being rounded to one decimal.
C13_ContributionsSumToComposite ==
    Returned => \A i \in 1..Len(Recs) :
                    RLeq(ContributionGap(Recs[i]), RoundingTolerance(Recs[i]))

\* a recommendation whose rounded contributions do not add up exactly to the
\* rounded composite, and one with a weighted factor that has no score
C13_RoundingShows ==
    /\ Returned
    /\ \E i \in 1..Len(Recs) : ~REq(ContributionGap(Recs[i]), RInt(0))
    /\ \E i \in 1..Len(Recs) :
          \E j \in 1..Len(Recs[i].factor_contributions) :
              ~Has(Recs[i].factor_scores, Recs[i].factor_contributions[j][1])

\* one hard constraint, as the claim words it: it applies when the preference
\* and the area's sub-record are both present, and is then met when the
\* sub-record's value is on the right side of the threshold
ConstraintMet(area_data, preferences, pref, sub, field, at_most) ==
    (Has(preferences, pref) /\ Has(area_data, sub)) =>
        /\ Has(Lookup(area_data, sub), field)
        /\ IF at_most
           THEN Lookup(Lookup(area_data, sub), field) <= Lookup(preferences, pref)
           ELSE Lookup(Lookup(area_data, sub), field) >= Lookup(preferences, pref)

MeetsApplicableConstraints(area_data, preferences) ==
    /\ ConstraintMet(area_data, preferences,
                     "budget_max", "scansan", "avg_price", TRUE)
    /\ ConstraintMet(area_data, preferences,
                     "max_commute_minutes", "commute", "duration_minutes", TRUE)
    /\ ConstraintMet(area_data, preferences,
                     "min_safety_score", "crime", "safety_score", FALSE)
    /\ ConstraintMet(area_data, preferences,
                     "min_school_rating", "schools", "avg_primary_score", FALSE)

RecommendedCodes == {Recs[i].area_code : i \in 1..Len(Recs)}

FilteredCodes ==
    {sret.filtered_out_reasons[i].area_code : i \in 1..Len(sret.filtered_out_reasons)}

\* C14: an area is recommended only if it fails none of the applicable hard
\* constraints; a constraint whose preference or sub-record is absent is
\* skipped, so only failing areas are removed; a failing area is removed,
\* never kept with a penalty.
C14_OnlyPassingAreasRecommended ==
    Returned =>
        /\ \A i \in 1..Len(Recs) :
              MeetsApplicableConstraints(Recs[i].raw_data, sret.user_preferences)
        /\ \A i \in 1..Len(scall.enrichment_data) :
              LET area == scall.enrichment_data[i]
              IN  /\ area[1] \in FilteredCodes
                       => ~MeetsApplicableConstraints(area[2], sret.user_preferences)
                  /\ ~MeetsApplicableConstraints(area[2], sret.user_preferences)
                       => area[1] \notin RecommendedCodes
        /\ Len(Recs) + sret.filtered_out_count <= Len(scall.enrichment_data)

\* a call with all four thresholds that recommends an area lacking a
\* sub-record (its constraint skipped) and removes another area
C14_SkippedAndRemoved ==
    /\ Returned
    /\ \A pref \in {"budget_max", "max_commute_minutes",
                    "min_safety_score", "min_school_rating"} :
          Has(sret.user_preferences, pref)
    /\ \E i \in 1..Len(Recs) : ~Has(Recs[i].raw_data, "schools")
    /\ sret.filtered_out_count > 0

\* the first constraint an area fails, in the precedence budget ceiling, max
\* commute minutes, min safety score, min school rating
FirstFailedConstraint(area_data, preferences) ==
    IF ~ConstraintMet(area_data, preferences,
                      "budget_max", "scansan", "avg_price", TRUE)
    THEN "budget"
    ELSE IF ~ConstraintMet(area_data, preferences,
                           "max_commute_minutes", "commute", "duration_minutes", TRUE)
    THEN "commute"
    ELSE IF ~ConstraintMet(area_data, preferences,
                           "min_safety_score", "crime", "safety_score", FALSE)
    THEN "safety"
    ELSE IF ~ConstraintMet(area_data, preferences,
                           "min_school_rating", "schools", "avg_primary_score", FALSE)
    THEN "school"
    ELSE "none"

\* the constraint a reason string of get_filter_reason names
ConstraintNamed(reason) ==
    CASE reason.text = "Over budget" -> "budget"
      [] reason.text = "Commute too long" -> "commute"
      [] OTHER -> "none"

\* C15: for every area that passes_constraints rejects, get_filter_reason
\* returns a reason naming the first constraint the area fails in the
\* precedence budget ceiling, max commute minutes, min safety score, min
\* school rating.
C15_ReasonNamesFirstFailedConstraint ==
    Returned =>
        \A i \in 1..Len(sret.filtered_out_reasons) :
            LET entry == sret.filtered_out_reasons[i]
                area_data == Lookup(scall.enrichment_data, entry.area_code)
            IN  ConstraintNamed(entry.reason)
                  = FirstFailedConstraint(area_data, sret.user_preferences)

\* an area removed because its safety score is below the minimum, the budget
\* and commute constraints being met or skipped
C15_RemovedForSafety ==
    /\ Returned
    /\ \E i \in 1..Len(sret.filtered_out_reasons) :
          FirstFailedConstraint(
              Lookup(scall.enrichment_data, sret.filtered_out_reasons[i].area_code),
              sret.user_preferences) = "safety"

\* the input areas that fail an applicable constraint, in input order
FailingAreas ==
    SelectSeq(scall.enrichment_data,
              LAMBDA a : ~MeetsApplicableConstraints(a[2], sret.user_preferences))

\* the area is recorded in filtered_out_reasons together with a reason string
RecordedWithReason(area_code) ==
    \E i \in 1..Len(sret.filtered_out_reasons) :
        /\ sret.filtered_out_reasons[i].area_code = area_code
        /\ sret.filtered_out_reasons[i].reason.text # ""

\* C16: every input area that is absent from recommendations is recorded in
\* the output together with a reason string.
C16_EveryAbsentAreaHasReason ==
    Returned =>
        \A i \in 1..Len(scall.enrichment_data) :
            scall.enrichment_data[i][1] \notin RecommendedCodes
              => RecordedWithReason(scall.enrichment_data[i][1])

\* C16 as amended: an input area absent from recommendations either passed
\* the filter and was cut by top_n (the list then holds top_n areas), or was
\* removed by the filter; a removed area is counted in filtered_out_count
\* and, when it is one of the first five removed, recorded with a reason.
C16_AbsentAreaCutOrCounted ==
    Returned =>
        /\ sret.filtered_out_count = Len(FailingAreas)
        /\ \A i \in 1..Len(scall.enrichment_data) :
              LET area == scall.enrichment_data[i]
              IN  area[1] \notin RecommendedCodes =>
                    \/ /\ MeetsApplicableConstraints(area[2], sret.user_preferences)
                       /\ Len(Recs) = scall.top_n
                    \/ \E j \in 1..Len(FailingAreas) :
                          /\ FailingAreas[j][1] = area[1]
                          /\ j <= 5 => RecordedWithReason(area[1])

\* a call that removes more than five areas and cuts a passing one by top_n
C16_CutAndUnrecorded ==
    /\ Returned
    /\ sret.filtered_out_count > 5
    /\ \E i \in 1..Len(scall.enrichment_data) :
          /\ scall.enrichment_data[i][1] \notin RecommendedCodes
          /\ MeetsApplicableConstraints(scall.enrichment_data[i][2],
                                        sret.user_preferences)

\* C17: filtered_out_reasons holds at most 5 entries, which are the first 5
\* filtered areas in input order, each with its area code and reason, while
\* filtered_out_count counts every filtered area.
C17_ReasonsAreFirstFive ==
    Returned =>
        /\ Len(sret.filtered_out_reasons) = Min(5, Len(FailingAreas))
        /\ \A i \in 1..Len(sret.filtered_out_reasons) :
              /\ sret.filtered_out_reasons[i].area_code = FailingAreas[i][1]
              /\ sret.filtered_out_reasons[i].reason
                    = get_filter_reason(FailingAreas[i][2], sret.user_preferences)
        /\ sret.filtered_out_count = Len(FailingAreas)

\* more areas are removed than the sample holds
C17_MoreThanFiveFiltered ==
    /\ Returned
    /\ sret.filtered_out_count > 5
    /\ Len(sret.filtered_out_reasons) = 5

-----------------------------------------------------------------------------
(* Claims about both scoring entry points                                  *)

CallReturned == sret # NoValue

UnknownPersona == scall.persona \notin PersonaSet

\* C18: a scoring request with an unknown persona name fails with an error
\* reported to the caller and produces no recommendations, in score_and_rank
\* and in rank_areas alike; it is never scored with another persona's weights.
C18_UnknownPersonaFails ==
    (CallReturned /\ UnknownPersona) => sret.kind = "raise"

\* score_and_rank has rejected an unknown persona
C18_UnknownPersonaRejected ==
    /\ CallReturned /\ UnknownPersona
    /\ scall.entry_point = "score_and_rank"
    /\ sret.kind = "raise"

-----------------------------------------------------------------------------
(* Further claims about the cache store                                    *)

\* a successful write_cache has just replaced a well-formed entry
JustOverwrote ==
    /\ LastOp = "write" /\ last.result
    /\ last.replaced # <<>> /\ last.replaced[1].kind = "entry"

\* C19: write_cache fully replaces any prior entry of the same (category,
\* key): after write(c,k,p1) and write(c,k,p2) the stored entry holds p2 and
\* nothing of p1, its creation timestamp is that of the second write, and
\* read(c,k) returns exactly p2.
C19_WriteReplacesEntry ==
    JustOverwrote =>
        /\ files[get_cache_path(last.cache_type, last.key)]
              = Entry(now, last.cache_type, last.key, last.data)
        /\ read_cache(last.cache_type, last.key, NoMaxAge) = Return(last.data)

\* an older entry with another payload was replaced, in a category with a
\* finite TTL
C19_ReplacedOlderOtherPayload ==
    /\ JustOverwrote
    /\ last.cache_type = Str1("crime")
    /\ last.replaced[1].data # json_dump(last.data)
    /\ FromIsoFormat(last.replaced[1].timestamp) < now
    /\ read_cache(last.cache_type, last.key, NoMaxAge) = Return(last.data)

\* the entries that were older than max_age_days when the sweep began
OldBeforeSweep ==
    {f \in DOMAIN last.before : IsOld(last.before[f], now, last.max_age_days)}

\* C20: clean_old_cache(max_age_days) deletes every entry whose age is
\* strictly greater than max_age_days, whatever its category's TTL, leaves
\* every entry of age <= max_age_days in place, and returns exactly the
\* number of entries it deleted.
C20_SweepDeletesExactlyTheOld ==
    LastOp = "clean" =>
        /\ files = Without(last.before, OldBeforeSweep)
        /\ last.result = [kind |-> "return", value |-> Cardinality(OldBeforeSweep)]

\* a sweep that deleted a video_url entry and kept an entry whose age is
\* exactly max_age_days
C20_SweptNeverExpiringEntry ==
    /\ LastOp = "clean"
    /\ last.result.kind = "return" /\ last.result.value > 0
    /\ get_cache_path(Str3("video", "_", "url"), Str1("E1")) \in OldBeforeSweep
    /\ get_cache_path(Str3("video", "_", "url"), Str1("E1")) \notin DOMAIN files
    /\ \E f \in DOMAIN files :
          /\ files[f].kind = "entry"
          /\ now - FromIsoFormat(files[f].timestamp) = last.max_age_days * 86400

-----------------------------------------------------------------------------
(* Claims about several pairs in one directory                             *)

JustChanged == LastOp \in {"write", "invalidate"} /\ last.result

ChangedPath == get_cache_path(last.cache_type, last.key)

\* the directory as it was before the write or invalidation just made
StoreBefore ==
    IF last.replaced = <<>> THEN Without(files, {ChangedPath})
    ELSE (ChangedPath :> last.replaced[1]) @@ Without(files, {ChangedPath})

\* the pairs other than the one just written or invalidated
OtherPairs == StorePairs \ {<<last.cache_type, last.key>>}

OthersReadTheSame ==
    \A p \in OtherPairs :
        read_cache_at(files, now, p[1], p[2], NoMaxAge)
          = read_cache_at(StoreBefore, now, p[1], p[2], NoMaxAge)

\* an entry written for exactly this pair is on disk
EntryFor(dir, cache_type, key) ==
    /\ get_cache_path(cache_type, key) \in DOMAIN dir
    /\ dir[get_cache_path(cache_type, key)].kind = "entry"
    /\ dir[get_cache_path(cache_type, key)].cache_type = cache_type
    /\ dir[get_cache_path(cache_type, key)].cache_key = key

\* C21: invalidate_cache(category, key) returns true iff an entry for that
\* pair existed; afterwards read_cache(category, key) is a miss, and every
\* entry for another (category, key) is unchanged.
C21_InvalidateRemovesOnlyItsEntry ==
    LastOp = "invalidate" =>
        /\ last.result = EntryFor(StoreBefore, last.cache_type, last.key)
        /\ read_cache(last.cache_type, last.key, NoMaxAge) = Return(PyNone)
        /\ OthersReadTheSame

\* invalidate_cache returned true for a pair that had no entry of its own:
\* the file it deleted held the entry written for another pair
C21_InvalidatedAnotherPairsEntry ==
    /\ LastOp = "invalidate" /\ last.result
    /\ ~EntryFor(StoreBefore, last.cache_type, last.key)
    /\ \E p \in OtherPairs : EntryFor(StoreBefore, p[1], p[2])

\* C27: for any two distinct pairs (c1,k1) # (c2,k2), a write_cache or
\* invalidate_cache on (c1,k1) never changes what read_cache(c2,k2) returns,
\* keys that differ only in '/', '\', ' ' versus '_' and category/key splits
\* that concatenate to the same name included.
C27_PairsAreIsolated ==
    JustChanged => OthersReadTheSame

\* a write to a pair whose file name is also that of another pair
C27_WroteCollidingPair ==
    /\ LastOp = "write" /\ last.result
    /\ \E p \in OtherPairs : get_cache_path(p[1], p[2]) = ChangedPath

-----------------------------------------------------------------------------
(* Claims about single factor scores, strengths and trade-offs             *)

FirstEngine == scall.entry_point = "score_and_rank"

\* clamp(0, 100, 100 - d/60*100), case by case
ClampedCommute(d) ==
    IF d <= 0 THEN RInt(100)
    ELSE IF d >= 60 THEN RInt(0)
    ELSE Rat(6000 - 100 * d, 60)

HasDuration(area_data) ==
    /\ Has(area_data, "commute")
    /\ Has(Lookup(area_data, "commute"), "duration_minutes")

Duration(area_data) == Lookup(Lookup(area_data, "commute"), "duration_minutes")

\* the commute score behind a recommendation of either engine
CommuteOf(rec) ==
    IF FirstEngine
    THEN Lookup(calculate_factor_scores(rec.raw_data, scall.persona), "commute")
    ELSE Lookup(rec.factor_breakdown, "commute")

AreaOf(rec) == IF FirstEngine THEN rec.raw_data ELSE rec.enrichment_data

\* C22: for every commute duration d the commute factor score equals
\* clamp(0, 100, 100 - d/60*100), 100 at 0 minutes and 0 from 60 minutes on,
\* and lies within 0..100, in both scoring engines.
C22_CommuteScoreIsClamped ==
    Returned =>
        \A i \in 1..Len(Recs) :
            HasDuration(AreaOf(Recs[i])) =>
                /\ CommuteOf(Recs[i]) = ClampedCommute(Duration(AreaOf(Recs[i])))
                /\ RLeq(RInt(0), CommuteOf(Recs[i]))
                /\ RLeq(CommuteOf(Recs[i]), RInt(100))

\* the second engine scored an area whose duration is negative
C22_NegativeDurationInSecondEngine ==
    /\ Returned /\ ~FirstEngine
    /\ \E i \in 1..Len(Recs) :
          /\ HasDuration(AreaOf(Recs[i]))
          /\ Duration(AreaOf(Recs[i])) < 0
          /\ RLess(RInt(100), CommuteOf(Recs[i]))

\* the factor scores behind a recommendation of either engine, unrounded
ScoresOf(rec) ==
    IF FirstEngine THEN calculate_factor_scores(rec.raw_data, scall.persona)
    ELSE rec.factor_breakdown

\* the number of factors that come before factor i when the factors are put
\* in descending order of score, equal scores staying in the order of the dict
PlaceOf(scores, i) ==
    Cardinality({ j \in 1..Len(scores) :
                    \/ RLess(scores[i][2], scores[j][2])
                    \/ scores[j][2] = scores[i][2] /\ j < i })

\* the factor at a place of that order, as <<name, score>>
FactorAtPlace(scores, place) ==
    scores[CHOOSE i \in 1..Len(scores) : PlaceOf(scores, i) = place]

\* how each engine writes a factor's name in the two lists
ListedName(factor) == IF FirstEngine THEN Titled(factor) ELSE factor

\* the factors among the 3 highest scores with a score >= 80, best first
ClaimedStrengths(scores) ==
    FirstOfEach(SelectSeq(
        [k \in 1..Min(3, Len(scores)) |-> FactorAtPlace(scores, k - 1)],
        LAMBDA fs : RLeq(RInt(80), fs[2])))

\* the factors among the 2 lowest scores with a score < 60, worst first
ClaimedWeaknesses(scores) ==
    FirstOfEach(SelectSeq(
        [k \in 1..Min(2, Len(scores)) |-> FactorAtPlace(scores, Len(scores) - k)],
        LAMBDA fs : RLess(fs[2], RInt(60))))

Listed(factors) == [i \in 1..Len(factors) |-> ListedName(factors[i])]

Elements(seq) == {seq[i] : i \in 1..Len(seq)}

TopScore(factor) == Lookup(Recs[1].factor_scores, factor)

\* every factor of the candidate is one the rank-1 candidate has too
ComparableWithTop(rec) ==
    KeySet(rec.factor_scores) \subseteq KeySet(Recs[1].factor_scores)

\* the candidate's factors more than 5 above the rank-1 candidate's
BetterThanTop(rec) ==
    FirstOfEach(SelectSeq(rec.factor_scores,
        LAMBDA fs : RLess(RAdd(TopScore(fs[1]), RInt(5)), fs[2])))

\* the candidate's factors more than 5 below the rank-1 candidate's
LowerThanTop(rec) ==
    FirstOfEach(SelectSeq(rec.factor_scores,
        LAMBDA fs : RLess(fs[2], RAdd(TopScore(fs[1]), RInt(-5)))))

FirstTwo(seq) == [k \in 1..Min(2, Len(seq)) |-> seq[k]]

SpacedAll(factors) == [k \in 1..Len(factors) |-> Spaced(factors[k])]

\* the statement the claim gives a candidate below rank 1
ClaimedTradeOff(rec, better, lower) ==
    /\ rec.trade_offs.better = SpacedAll(FirstTwo(better))
    /\ rec.trade_offs.lower = SpacedAll(FirstTwo(lower))
    /\ (better # <<>> /\ lower # <<>>)
          => rec.trade_offs.text = "Better {} but lower {}"
    /\ (better = <<>> /\ lower # <<>>)
          => rec.trade_offs.text = "Lower {} than top choice"
    /\ (better = <<>> /\ lower = <<>>)
          <=> rec.trade_offs.text = "Similar profile to top choice"

\* C24: the rank-1 candidate gets the fixed best-overall-balance statement
\* and no comparison; every other candidate has a factor marked better when
\* its score is more than 5 above the rank-1 candidate's and lower when it is
\* more than 5 below, at most the first two in each direction, only the lower
\* factors when none is better, and a similar profile when no factor differs
\* by more than 5.
C24_TradeOffsFollowTheThreshold ==
    (Returned /\ FirstEngine) =>
        \A i \in 1..Len(Recs) :
            IF Recs[i].rank = 1
            THEN Recs[i].trade_offs =
                     [text |-> "Top-ranked with best overall balance of factors",
                      better |-> <<>>, lower |-> <<>>]
            ELSE ComparableWithTop(Recs[i]) =>
                     ClaimedTradeOff(Recs[i], BetterThanTop(Recs[i]),
                                     LowerThanTop(Recs[i]))

\* a candidate with a factor more than 5 above the rank-1 candidate's and
\* none more than 5 below was given the similar-profile statement
C24_BetterOnlyReportedSimilar ==
    /\ Returned /\ FirstEngine
    /\ \E i \in 2..Len(Recs) :
          /\ ComparableWithTop(Recs[i])
          /\ BetterThanTop(Recs[i]) # <<>>
          /\ LowerThanTop(Recs[i]) = <<>>
          /\ Recs[i].trade_offs.text = "Similar profile to top choice"

\* the one area of the scenario: affordability 92, 25 minutes of commute,
\* safety 78, amenities 90 and a property record without investment quality
IsScenarioArea(area_data) ==
    /\ KeySet(area_data) = {"scansan", "commute", "crime", "amenities"}
    /\ Lookup(area_data, "scansan") = << <<"affordability_score", 92>> >>
    /\ Lookup(area_data, "commute") = << <<"duration_minutes", 25>> >>
    /\ Lookup(area_data, "crime") = << <<"safety_score", 78>> >>
    /\ Lookup(area_data, "amenities") = << <<"density_score", 90>> >>

ScenarioCall ==
    /\ FirstEngine
    /\ scall.persona = "student"
    /\ ~Has(scall.user_preferences, "importance_weights")
    /\ Len(scall.enrichment_data) = 1
    /\ IsScenarioArea(scall.enrichment_data[1][2])

\* 58.33 at two decimals
Is5833(score) == RLeq(Rat(58325, 1000), score) /\ RLess(score, Rat(58335, 1000))

\* C25: score_and_rank for a student with no importance ratings and the one
\* scenario area gives the commute factor score 58.33 and the composite
\* score 79.0, investment quality being counted at the neutral 50 with
\* weight 5.
C25_ScenarioScores ==
    (ScenarioCall /\ CallReturned) =>
        /\ Returned
        /\ Len(Recs) = 1
        /\ Is5833(CommuteOf(Recs[1]))
        /\ Lookup(Recs[1].factor_scores, "commute") = RInt(58)
        /\ Lookup(Recs[1].factor_scores, "investment_quality") = RInt(50)
        /\ Lookup(sret.adjusted_weights, "investment_quality") = RInt(5)
        /\ REq(Lookup(Recs[1].factor_contributions, "investment_quality"),
               Rat(25, 10))
        /\ REq(Recs[1].composite_score, RInt(79))

\* the scenario call has returned its one recommendation
C25_ScenarioScored ==
    /\ ScenarioCall /\ Returned
    /\ Len(Recs) = 1
    /\ Recs[1].area_code = "E1"

-----------------------------------------------------------------------------
(* Claims about concurrent writers                                         *)

BothWritten == race # NoValue /\ \A i \in Writers : race.w[i].pc = "done"

\* C26: after two processes' concurrent write_cache calls on one
\* (category, key) have both completed, read_cache returns the complete
\* payload of one of the two, never a mixture and never a corrupt entry.
C26_ReadReturnsOneWritersPayload ==
    BothWritten =>
        \E i \in Writers :
            read_cache(RaceType, RaceKey, NoMaxAge)
              = Return(RacePayload(race.w[i].items))

\* both calls have returned and the file is not a JSON document
C26_BothWrittenFileCorrupt ==
    /\ BothWritten
    /\ files[get_cache_path(RaceType, RaceKey)] = InvalidJson
    /\ read_cache(RaceType, RaceKey, NoMaxAge) = Return(PyNone)

-----------------------------------------------------------------------------
(* Claims about the cache-aside protocol of the fetchers                   *)

ProtocolFetchers ==
    {"fetch_scansan_data", "fetch_commute_data", "fetch_crime_data",
     "fetch_amenities_data"}

\* the entry a fetcher cached under this path is on disk and younger than
\* the TTL of its data category
FreshEntryAt(cache_path) ==
    /\ cache_path \in DOMAIN files
    /\ files[cache_path].kind = "entry"
    /\ now - FromIsoFormat(files[cache_path].timestamp)
          <= IntendedHours(files[cache_path].cache_type) * 3600

\* what the claim says of one fetch, last' being its record
FetchKeepsProtocol(cache_path) ==
    /\ FreshEntryAt(cache_path) =>
          /\ last'.result = Return(json_load(files[cache_path].data))
          /\ ~last'.called_upstream
          /\ files' = files
    /\ last'.called_upstream =>
          read_cache(last'.cache_type, last'.key, NoMaxAge) = Return(PyNone)
    /\ (last'.called_upstream /\ last'.result = Return(PyNone)) =>
          files' = files

\* C28: with use_cache=True, a fetch made while the record cached for its
\* key is fresh (and was not invalidated, swept or overwritten) returns that
\* record without calling upstream; upstream is called only on a cache miss;
\* a failed upstream fetch writes nothing to the cache.
C28_CacheAsideProtocol ==
    [][ (last' # NoValue /\ last'.op \in ProtocolFetchers /\ last'.use_cache)
          => FetchKeepsProtocol(get_cache_path(last'.cache_type, last'.key))
      ]_vars

\* a fetcher called upstream, which failed, while the record cached for its
\* key was older than a day and younger than the TTL of its category
C28_UpstreamCalledOverFreshEntry ==
    /\ LastOp \in ProtocolFetchers
    /\ last.use_cache /\ last.called_upstream
    /\ last.result = Return(PyNone)
    /\ FreshEntryAt(get_cache_path(last.cache_type, last.key))
    /\ now - FromIsoFormat(files[get_cache_path(last.cache_type, last.key)].timestamp)
          > 24 * 3600

-----------------------------------------------------------------------------
(* Claims about what a read leaves behind                                  *)

\* the entry for the pair is on disk and older than the age the read allows
Expired(dir, clock, cache_type, key, max_age_arg) ==
    /\ get_cache_path(cache_type, key) \in DOMAIN dir
    /\ dir[get_cache_path(cache_type, key)].kind = "entry"
    /\ IF max_age_arg = NoMaxAge
       THEN /\ ~Get(CACHE_VALIDITY, cache_type, Hours(24)).inf
            /\ clock - FromIsoFormat(dir[get_cache_path(cache_type, key)].timestamp)
                 > Get(CACHE_VALIDITY, cache_type, Hours(24)).hours * 3600
       ELSE clock - FromIsoFormat(dir[get_cache_path(cache_type, key)].timestamp)
                 > max_age_arg[1] * 3600

\* the file of the pair is the same before and after the step
FileKept(cache_type, key) ==
    /\ get_cache_path(cache_type, key) \in DOMAIN files'
    /\ files'[get_cache_path(cache_type, key)]
         = files[get_cache_path(cache_type, key)]

\* the operations that may remove or replace a file
StoreChangers == {"write", "invalidate", "clean", "damage"}

-----------------------------------------------------------------------------
(* Claims about the weight tables                                          *)

\* the base weights of a persona as the table held them at startup
StartupBaseWeights(persona) ==
    [i \in 1..Len(Lookup(InitialPersonaWeights, persona)) |->
        <<Lookup(InitialPersonaWeights, persona)[i][1],
          RInt(Lookup(InitialPersonaWeights, persona)[i][2])>>]

\* the composite the second engine gives factor scores under the startup
\* weights of a persona, student's for a persona the table does not list
StartupComposite(factor_scores, persona) ==
    Round1(RSumValues(score_areas_contributions(factor_scores,
        Get(score_areas_InitialPersonaWeights, persona,
            Lookup(score_areas_InitialPersonaWeights, "student")))))

UnratedWeightsReturned == wret # NoValue /\ wcall.user_importance = <<>>

UnratedScoreReturned ==
    /\ Returned /\ FirstEngine
    /\ ~Has(scall.user_preferences, "importance_weights")

UnratedRankReturned ==
    /\ Returned /\ ~FirstEngine
    /\ scall.user_weights = <<>>

\* C30: after any sequence of calculate_adjusted_weights, score_and_rank and
\* score_areas.calculate_composite_score calls with any importance ratings,
\* both PERSONA_WEIGHTS tables hold the values they had at startup, and a
\* call with no ratings returns the original base weights.
C30_TablesKeepStartupValues ==
    /\ PERSONA_WEIGHTS = InitialPersonaWeights
    /\ score_areas_PERSONA_WEIGHTS = score_areas_InitialPersonaWeights
    /\ UnratedWeightsReturned => wret.weights = StartupBaseWeights(wcall.persona)
    /\ UnratedScoreReturned =>
          sret.adjusted_weights = StartupBaseWeights(scall.persona)
    /\ UnratedRankReturned =>
          \A i \in 1..Len(Recs) :
              Recs[i].composite_score
                = StartupComposite(Recs[i].factor_breakdown, scall.persona)

\* calls without ratings have returned after earlier calls with ratings
C30_UnratedAfterRated ==
    /\ last # NoValue /\ last.op = "calls" /\ last.rated
    /\ UnratedWeightsReturned
    /\ UnratedRankReturned

====
